---- MODULE Spec2Model ----
(***************************************************************************)
(* Model of the AI Dev Team orchestrator (workflows/orchestrator.py) and   *)
(* of the WorkItem model it drives (core/models.py).                       *)
(*                                                                         *)
(* A run is one invocation of process_epic, process_task or                *)
(* process_review on one Orchestrator.  Every `await` of a persona call is *)
(* a suspension point: the call is answered by the runner (RunnerReturn /  *)
(* RunnerRaise) and the workflow resumes in a later step.  Calls to the    *)
(* GitHub collaborator are synchronous and either succeed or raise.        *)
(***************************************************************************)
EXTENDS Integers, Sequences, FiniteSets, TLC

\* ------------------------------------------------------------------------
\* Bounds of the model
\* ------------------------------------------------------------------------
NumTexts == 2
NumErrors == 2

Texts == 1..NumTexts          \* possible final_output texts of the runner
ErrorMsgs == 1..NumErrors     \* possible str(e) of a failing call
Runs == {1, 2}                \* run 2 is used only by two-workflow specs

\* ------------------------------------------------------------------------
\* Enumerations of core/models.py and workflows/orchestrator.py
\* ------------------------------------------------------------------------
WorkItemType == {"epic", "story", "task", "subtask", "bug"}

WorkItemStatus ==
    {"backlog", "ready", "in_progress", "in_review", "approved",
     "merged", "deployed", "blocked", "cancelled"}

PersonaType ==
    {"produkt_paula", "strategiska_stina", "arkitekt_alf", "utvecklar_uffe",
     "test_tina", "dok_daniel", "sakerhets_sara", "devops_david",
     "synthesizer"}

ReviewDecision == {"approve", "request_changes", "comment", "block"}

WorkflowPhase ==
    {"planning", "design", "implementation", "review", "merge", "deploy"}

None == "None"      \* Optional[...] = None for enum- and string-valued fields
NoTime == 0         \* Optional[datetime] = None
NoNumber == 0       \* Optional[int] = None (falsy, like None)
PrNumber == 7       \* pr.number handed out by the collaborator

\* ------------------------------------------------------------------------
\* dict helpers: a Python dict is a sequence of <<key, value>> pairs in
\* insertion order; assigning an existing key keeps its position.
\* ------------------------------------------------------------------------
DictKeys(d) == {d[i][1] : i \in 1..Len(d)}

DictHas(d, k) == k \in DictKeys(d)

DictGet(d, k) == d[CHOOSE i \in 1..Len(d) : d[i][1] = k][2]

DictSet(d, k, v) ==
    IF DictHas(d, k)
    THEN [i \in 1..Len(d) |-> IF d[i][1] = k THEN <<k, v>> ELSE d[i]]
    ELSE Append(d, <<k, v>>)

RECURSIVE DictUpdate(_, _)
DictUpdate(d, e) ==
    IF e = <<>> THEN d
    ELSE DictUpdate(DictSet(d, e[1][1], e[1][2]), Tail(e))

DictValues(d) == [i \in 1..Len(d) |-> d[i][2]]

RECURSIVE Concat(_)
Concat(ss) == IF ss = <<>> THEN <<>> ELSE ss[1] \o Concat(Tail(ss))

\* ------------------------------------------------------------------------
\* core/models.py
\* ------------------------------------------------------------------------
DefaultPriority == 3

NewWorkItem(id, type, pr, t) ==
    [id |-> id, type |-> type, status |-> "backlog",
     acceptance_criteria |-> <<>>,
     parent_id |-> None, priority |-> DefaultPriority, labels |-> <<>>,
     github_issue_number |-> NoNumber,
     github_pr_number |-> pr, github_branch |-> None,
     created_at |-> t, updated_at |-> t,
     started_at |-> NoTime, completed_at |-> NoTime]

TransitionToRestamps(it, new_status, t) ==
    LET stamped ==
          IF new_status = "in_progress"
          THEN [it EXCEPT !.started_at = t]
          ELSE IF new_status \in {"merged", "deployed"}
               THEN [it EXCEPT !.completed_at = t]
               ELSE it
    IN [stamped EXCEPT !.status = new_status, !.updated_at = t]

TransitionToApprovedCompletes(it, new_status, t) ==
    LET stamped ==
          IF new_status = "in_progress" /\ it.started_at = NoTime
          THEN [it EXCEPT !.started_at = t]
          ELSE IF new_status \in {"approved", "merged", "deployed"}
               THEN [it EXCEPT !.completed_at = t]
               ELSE it
    IN [stamped EXCEPT !.status = new_status, !.updated_at = t]

\* WorkItem.transition_to
TransitionTo(it, new_status, t) ==
    LET stamped ==
          IF new_status = "in_progress" /\ it.started_at = NoTime
          THEN [it EXCEPT !.started_at = t]
          ELSE IF new_status \in {"merged", "deployed"}
               THEN [it EXCEPT !.completed_at = t]
               ELSE it
    IN [stamped EXCEPT !.status = new_status, !.updated_at = t]

\* AcceptanceCriterion(description=description), with a fresh uuid4 as id
NewCriterion(id, description) ==
    [id |-> id, description |-> description, is_met |-> FALSE,
     verified_by |-> None, verified_at |-> NoTime]

\* WorkItem.add_acceptance_criterion
AddAcceptanceCriterion(it, id, description) ==
    [it EXCEPT !.acceptance_criteria = Append(@, NewCriterion(id, description))]

MarkEveryCriterionMet(it, criterion_id, verified_by, t) ==
    [it EXCEPT !.acceptance_criteria =
        [i \in 1..Len(@) |->
            [@[i] EXCEPT !.is_met = TRUE, !.verified_by = verified_by,
                         !.verified_at = t]]]

\* WorkItem.mark_criterion_met: the first criterion with that id, then break
MarkCriterionMet(it, criterion_id, verified_by, t) ==
    LET cs == it.acceptance_criteria
        hits == {i \in 1..Len(cs) : cs[i].id = criterion_id}
    IN IF hits = {} THEN it
       ELSE LET first == CHOOSE i \in hits : \A j \in hits : i <= j
            IN [it EXCEPT !.acceptance_criteria[first] =
                   [@ EXCEPT !.is_met = TRUE, !.verified_by = verified_by,
                             !.verified_at = t]]

SomeCriterionMet(it) ==
    \E i \in 1..Len(it.acceptance_criteria) : it.acceptance_criteria[i].is_met

\* WorkItem.all_criteria_met
AllCriteriaMet(it) ==
    \A i \in 1..Len(it.acceptance_criteria) : it.acceptance_criteria[i].is_met

NewPersonaResponse(persona, reasoning) ==
    [persona |-> persona, decision |-> "", reasoning |-> reasoning,
     artifacts |-> <<>>, follow_up_actions |-> <<>>,
     review_decision |-> None]

\* ------------------------------------------------------------------------
\* workflows/orchestrator.py: data and pure helpers
\* ------------------------------------------------------------------------
NewWorkflowState(item_id, phase, t) ==
    [work_item |-> item_id, phase |-> phase, responses |-> <<>>,
     artifacts |-> <<>>, pending_actions |-> <<>>, errors |-> <<>>,
     started_at |-> t, completed_at |-> NoTime]

RequiredReviewersDefaultSecurity(type) ==
    CASE type = "task" -> <<"arkitekt_alf", "sakerhets_sara">>
      [] OTHER -> <<"sakerhets_sara">>

\* REQUIRED_REVIEWS.get(type, [])
RequiredReviewers(type) ==
    CASE type = "task" -> <<"arkitekt_alf", "sakerhets_sara">>
      [] type = "bug" -> <<"sakerhets_sara">>
      [] OTHER -> <<>>

\* persona_type.value.replace('_', ' ').title()
TitleOf(p) ==
    CASE p = "produkt_paula" -> "Produkt Paula"
      [] p = "strategiska_stina" -> "Strategiska Stina"
      [] p = "arkitekt_alf" -> "Arkitekt Alf"
      [] p = "utvecklar_uffe" -> "Utvecklar Uffe"
      [] p = "test_tina" -> "Test Tina"
      [] p = "dok_daniel" -> "Dok Daniel"
      [] p = "sakerhets_sara" -> "Sakerhets Sara"
      [] p = "devops_david" -> "Devops David"
      [] OTHER -> "Synthesizer"

\* one markdown section per response, in dict order, joined by blank lines
FormatSynthesisInput(responses) ==
    [i \in 1..Len(responses) |->
        [title |-> TitleOf(responses[i][1]),
         reasoning |-> responses[i][2].reasoning]]

SummarizeArtifacts(artifacts) ==
    IF artifacts = <<>> THEN <<"No artifacts yet.">>
    ELSE [i \in 1..Len(artifacts) |->
            [name |-> IF artifacts[i].target_path # None
                      THEN artifacts[i].target_path
                      ELSE artifacts[i].type,
             chars |-> artifacts[i].length]]

AllReviewsApprovedMissingOk(type, responses) ==
    LET required == RequiredReviewers(type)
    IN \A i \in 1..Len(required) :
          DictHas(responses, required[i]) =>
             DictGet(responses, required[i]).review_decision = "approve"

AllReviewsApprovedNoDecision(type, responses) ==
    LET required == RequiredReviewers(type)
    IN \A i \in 1..Len(required) : DictHas(responses, required[i])

AnyReviewApproved(type, responses) ==
    LET required == RequiredReviewers(type)
    IN \/ required = <<>>
       \/ \E i \in 1..Len(required) :
             /\ DictHas(responses, required[i])
             /\ DictGet(responses, required[i]).review_decision = "approve"

\* _all_reviews_approved(state), on state.work_item.type and state.responses
AllReviewsApproved(type, responses) ==
    LET required == RequiredReviewers(type)
    IN \A i \in 1..Len(required) :
          /\ DictHas(responses, required[i])
          /\ DictGet(responses, required[i]).review_decision = "approve"

\* ------------------------------------------------------------------------
\* State
\* ------------------------------------------------------------------------
VARIABLES
    github,            \* self.github is configured (orchestrator.py:68)
    kind,              \* per run: which workflow method was called
    item,              \* per run: the WorkItem passed to the workflow
    state,             \* per run: the WorkflowState of the workflow
    review_state,      \* per run: the WorkflowState built by process_review
    active_workflows,  \* registry: work item id -> run owning the state
    pc,                \* per run: position of the workflow coroutine
    call,              \* per run, per persona: status of _invoke_persona
    result,            \* per run, per persona: text or error of the call
    prompts,           \* per run: the _invoke_persona calls made, in order
    completion,        \* per run: personas in the order their calls ended
    gh_log,            \* calls made to the GitHub collaborator, in order
    exc,               \* per run: exception that reached the caller
    gate,              \* per run: outcome of _all_reviews_approved
    now,               \* logical clock behind datetime.utcnow()
    wi,                \* a WorkItem whose methods are called directly
    called,            \* the last method called on wi, with its result
    event,             \* per run: the GitHubEvent handle_github_event got
    issue,             \* the GitHub issue written from a WorkItem
    parsed,            \* what parse_work_item_from_issue returned
    repl,              \* interactive_mode: position, registry, output
    api                \* an ApiDocumentation and the calls made on it

\* state outside the workflow runs
outer == <<event, issue, parsed, repl, api>>

vars == <<outer, wi, called, github, kind, item, state, review_state, active_workflows, pc,
          call, result, prompts, completion, gh_log, exc, gate, now>>

ItemIds == {"id1", "id2"}
ItemIdOf(r) == IF r = 1 THEN "id1" ELSE "id2"

NoError == [origin |-> "none", code |-> 0]
Output(text) == [origin |-> "output", code |-> text]
RunnerErrors == [origin : {"runner"}, code : ErrorMsgs]

\* what a call of run r may return or raise: the first run draws from the
\* whole sets, a second, concurrent run from their first element
TextsOf(r) == IF r = 1 THEN Texts ELSE {1}
RunnerErrorsOf(r) == IF r = 1 THEN RunnerErrors
                     ELSE [origin : {"runner"}, code : {1}]
GithubError == [origin |-> "github", code |-> 0]

\* str(e)
Str(e) == <<e.origin, e.code>>

\* f"{reviewer.value}: {str(response)}"
ReviewErrorEntry(reviewer, e) == <<reviewer, ": ">> \o Str(e)

NoCall ==
    [op |-> "none", status |-> None, criterion_id |-> 0, by |-> None,
     at |-> NoTime, ret |-> FALSE]

Unstarted == NewWorkflowState(None, "planning", NoTime)

\* no event handled, no issue written, no REPL session
NoEvent == [event_type |-> None, action |-> None, body |-> None]
NoIssue == [number |-> NoNumber, body |-> <<>>, labels |-> <<>>]
NoRepl == [pc |-> "off", input |-> [raised |-> None, line |-> <<>>],
           output |-> <<>>, read |-> 0,
           awaiting |-> 0, workflows |-> {}, ran |-> {}]

\* ApiDocumentation.__init__: self.endpoints = []
NewApiDocumentation ==
    [endpoints |-> <<>>, calls |-> <<>>, asked |-> FALSE, returned |-> <<>>]

InitShared ==
    /\ github \in BOOLEAN
    /\ review_state = [r \in Runs |-> Unstarted]
    /\ active_workflows = [i \in ItemIds |-> 0]
    /\ call = [r \in Runs |-> [p \in PersonaType |-> "idle"]]
    /\ result = [r \in Runs |-> [p \in PersonaType |-> NoError]]
    /\ prompts = [r \in Runs |-> <<>>]
    /\ completion = [r \in Runs |-> <<>>]
    /\ gh_log = <<>>
    /\ exc = [r \in Runs |-> NoError]
    /\ gate = [r \in Runs |-> "unset"]
    /\ now = 1
    /\ called = NoCall
    /\ event = [r \in Runs |-> NoEvent]
    /\ issue = NoIssue
    /\ parsed = <<>>
    /\ repl = NoRepl
    /\ api = NewApiDocumentation

InitCommon ==
    /\ InitShared
    /\ wi = NewWorkItem("id1", "task", NoNumber, 0)

RegisterSingleSlot(workflows, it, r) == [i \in DOMAIN workflows |-> r]

\* self.active_workflows[work_item.id] = state
Register(workflows, it, r) == [workflows EXCEPT ![it.id] = r]

\* One workflow call on a fresh Orchestrator: process_epic, process_task or
\* process_review on a work item of any type.
Init ==
    /\ InitCommon
    /\ \E k \in {"epic", "task", "review"}, t \in WorkItemType,
          pr \in {NoNumber, PrNumber} :
          /\ k # "review" => pr = NoNumber
          /\ kind = [r \in Runs |-> IF r = 1 THEN k ELSE "off"]
          /\ item = [r \in Runs |-> NewWorkItem(ItemIdOf(r), t, pr, 0)]
    /\ pc = [r \in Runs |-> IF r = 1 THEN "start" ELSE "off"]
    /\ state = [r \in Runs |-> Unstarted]

\* ------------------------------------------------------------------------
\* _invoke_persona and the runner
\* ------------------------------------------------------------------------
\* the branch named in the prompt: repo_state.get('branch', 'N/A')
PromptBranch(it) ==
    IF ~github THEN <<"N/A">>
    ELSE IF it.github_branch # None THEN it.github_branch
    ELSE <<"integration">>

\* the prompt _invoke_persona builds from the work item as it is at the call
Invocation(it, p, action, instructions) ==
    [persona |-> p, action |-> action, instructions |-> instructions,
     status |-> it.status, branch |-> PromptBranch(it)]

\* the coroutines of `invs` are started: each builds its prompt and awaits
\* runner.run (orchestrator.py:342-377)
Launch(r, invs) ==
    /\ call' = [call EXCEPT ![r] =
                  [p \in PersonaType |->
                     IF \E i \in 1..Len(invs) : invs[i].persona = p
                     THEN "running" ELSE @[p]]]
    /\ prompts' = [prompts EXCEPT ![r] = @ \o invs]

\* runner.run returns; _invoke_persona wraps final_output in a response
RunnerReturn(r, p) ==
    /\ call[r][p] = "running"
    /\ \E text \in TextsOf(r) :
          result' = [result EXCEPT ![r][p] = Output(text)]
    /\ call' = [call EXCEPT ![r][p] = "returned"]
    /\ completion' = [completion EXCEPT ![r] = Append(@, p)]
    /\ UNCHANGED <<outer, wi, called, github, kind, item, state, review_state,
                   active_workflows, pc, prompts, gh_log, exc, gate, now>>

\* runner.run raises, or get_repository_state raises inside the call
RunnerRaise(r, p) ==
    /\ call[r][p] = "running"
    /\ \E e \in RunnerErrorsOf(r)
                 \cup (IF github THEN {GithubError} ELSE {}) :
          result' = [result EXCEPT ![r][p] = e]
    /\ call' = [call EXCEPT ![r][p] = "raised"]
    /\ completion' = [completion EXCEPT ![r] = Append(@, p)]
    /\ UNCHANGED <<outer, wi, called, github, kind, item, state, review_state,
                   active_workflows, pc, prompts, gh_log, exc, gate, now>>

Ended(r, p) == call[r][p] \in {"returned", "raised"}

\* PersonaResponse(message_id=..., persona=persona_type, reasoning=...)
ResponseOf(r, p) == NewPersonaResponse(p, result[r][p].code)

CompleteUnstamped(s, t) == s

\* state.completed_at = datetime.utcnow()
Complete(s, t) == [s EXCEPT !.completed_at = t]

FailAndComplete(r, s, e) ==
    /\ state' = [state EXCEPT ![r] =
                   Complete([s EXCEPT !.errors = Append(@, Str(e))], now)]
    /\ exc' = [exc EXCEPT ![r] = e]
    /\ pc' = [pc EXCEPT ![r] = "raised"]

\* except Exception as e: state.errors.append(str(e)); raise
Fail(r, s, e) ==
    /\ state' = [state EXCEPT ![r] = [s EXCEPT !.errors = Append(@, Str(e))]]
    /\ exc' = [exc EXCEPT ![r] = e]
    /\ pc' = [pc EXCEPT ![r] = "raised"]

\* first exception among awaited calls, in the order the calls ended
FirstRaised(r, ps) ==
    LET idx == {i \in 1..Len(completion[r]) :
                   completion[r][i] \in ps /\ call[r][completion[r][i]] = "raised"}
        first == CHOOSE i \in idx : \A j \in idx : i <= j
    IN completion[r][first]

\* ------------------------------------------------------------------------
\* process_epic
\* ------------------------------------------------------------------------
\* process_epic(epic) up to its first await
BeginEpic(r, epic) ==
    /\ state' = [state EXCEPT ![r] =
                   NewWorkflowState(epic.id, "planning", now)]
    /\ active_workflows' = Register(active_workflows, epic, r)
    /\ Launch(r, <<Invocation(epic, "produkt_paula", "break_down",
                              <<"Break down this Epic">>)>>)
    /\ pc' = [pc EXCEPT ![r] = "epic_planning"]
    /\ now' = now + 1

EpicStart(r) ==
    /\ pc[r] = "start" /\ kind[r] = "epic"
    /\ BeginEpic(r, item[r])
    /\ UNCHANGED <<outer, wi, called, github, kind, item, review_state, result, completion,
                   gh_log, exc, gate>>

StinaInstructions(paula) == <<"Assess strategic fit", paula.reasoning>>
AlfInstructions(paula) == <<"Design architecture", paula.reasoning>>

EpicPlanningDone(r) ==
    /\ pc[r] = "epic_planning" /\ Ended(r, "produkt_paula")
    /\ IF call[r]["produkt_paula"] = "raised"
       THEN /\ Fail(r, state[r], result[r]["produkt_paula"])
            /\ UNCHANGED <<call, prompts>>
       ELSE LET paula == ResponseOf(r, "produkt_paula")
            IN /\ state' = [state EXCEPT ![r] =
                      [@ EXCEPT !.responses =
                                   DictSet(@, "produkt_paula", paula),
                                !.phase = "design"]]
               /\ Launch(r, <<Invocation(item[r], "strategiska_stina",
                                         "assess",
                                         StinaInstructions(paula)),
                              Invocation(item[r], "arkitekt_alf", "design",
                                         AlfInstructions(paula))>>)
               /\ pc' = [pc EXCEPT ![r] = "epic_design"]
               /\ UNCHANGED exc
    /\ UNCHANGED <<outer, wi, called, github, kind, item, review_state, active_workflows,
                   result, completion, gh_log, gate, now>>

GatherResultsByCompletion(r) ==
    LET ended == SelectSeq(completion[r],
                           LAMBDA p : p \in {"strategiska_stina", "arkitekt_alf"})
    IN [i \in 1..2 |-> ResponseOf(r, ended[i])]

\* stina_response, alf_response = await asyncio.gather(stina_task, alf_task)
GatherResultsByPosition(r) ==
    <<ResponseOf(r, "strategiska_stina"), ResponseOf(r, "arkitekt_alf")>>

DesignFirstCompleted(r) ==
    \/ call[r]["strategiska_stina"] = "returned"
    \/ call[r]["arkitekt_alf"] = "returned"

\* asyncio.gather resolves once every awaited call has returned
DesignJoined(r) ==
    /\ call[r]["strategiska_stina"] = "returned"
    /\ call[r]["arkitekt_alf"] = "returned"

EpicDesignDone(r) ==
    /\ pc[r] = "epic_design"
    /\ DesignJoined(r)
    /\ LET gathered == GatherResultsByPosition(r)
           responses == DictSet(DictSet(state[r].responses,
                                        "strategiska_stina", gathered[1]),
                                "arkitekt_alf", gathered[2])
       IN /\ state' = [state EXCEPT ![r] = [@ EXCEPT !.responses = responses]]
          /\ Launch(r, <<Invocation(item[r], "synthesizer", "synthesize",
                            <<"Synthesize these perspectives",
                              FormatSynthesisInput(responses)>>)>>)
    /\ pc' = [pc EXCEPT ![r] = "epic_synthesis"]
    /\ UNCHANGED <<outer, wi, called, github, kind, item, review_state, active_workflows,
                   result, completion, gh_log, exc, gate, now>>

DesignRaisedKeepingReturned(r, s) ==
    LET returned == SelectSeq(<<"strategiska_stina", "arkitekt_alf">>,
                              LAMBDA p : call[r][p] = "returned")
    IN [s EXCEPT !.responses =
           DictUpdate(@, [i \in 1..Len(returned) |->
                            <<returned[i], ResponseOf(r, returned[i])>>])]

\* the gather raised: the two assignments to state.responses that follow it
\* are not reached
DesignRaised(r, s) == s

\* gather without return_exceptions: the first exception is raised to the
\* awaiting workflow at once; the other call is neither awaited nor cancelled
EpicDesignFail(r) ==
    /\ pc[r] = "epic_design"
    /\ \E p \in {"strategiska_stina", "arkitekt_alf"} : call[r][p] = "raised"
    /\ Fail(r, DesignRaised(r, state[r]),
            result[r][FirstRaised(r, {"strategiska_stina", "arkitekt_alf"})])
    /\ UNCHANGED <<outer, wi, called, github, kind, item, review_state, active_workflows,
                   call, result, prompts, completion, gh_log, gate, now>>

EpicSynthesisDone(r) ==
    /\ pc[r] = "epic_synthesis" /\ Ended(r, "synthesizer")
    /\ IF call[r]["synthesizer"] = "raised"
       THEN /\ Fail(r, state[r], result[r]["synthesizer"])
            /\ UNCHANGED now
       ELSE /\ state' = [state EXCEPT ![r] =
                   Complete([@ EXCEPT !.responses =
                                DictSet(@, "synthesizer",
                                        ResponseOf(r, "synthesizer"))],
                            now)]
            /\ pc' = [pc EXCEPT ![r] = "returned"]
            /\ now' = now + 1
            /\ UNCHANGED exc
    /\ UNCHANGED <<outer, wi, called, github, kind, item, review_state, active_workflows,
                   call, result, prompts, completion, gh_log, gate>>

\* ------------------------------------------------------------------------
\* GitHub collaborator
\* ------------------------------------------------------------------------
GhCall(r, op, arg) == [op |-> op, run |-> r, arg |-> arg, ok |-> TRUE]

\* the collaborator calls of one step, of which the f-th raises (0: none)
Attempted(ops, f) ==
    IF f = 0 THEN ops
    ELSE [i \in 1..f |-> IF i = f THEN [ops[i] EXCEPT !.ok = FALSE] ELSE ops[i]]

BranchOf(it) == <<"feature", it.type, it.id>>

HasTargetPath(a) == a.target_path # None

\* ------------------------------------------------------------------------
\* process_review
\* ------------------------------------------------------------------------
DiffOf(it) ==
    IF github /\ it.github_pr_number # NoNumber THEN "diff" ELSE ""

DiffCalls(r, it) ==
    IF github /\ it.github_pr_number # NoNumber
    THEN <<GhCall(r, "get_pr_diff", it.github_pr_number)>>
    ELSE <<>>

ReviewInvocations(it) ==
    LET required == RequiredReviewers(it.type)
    IN [i \in 1..Len(required) |->
          Invocation(it, required[i], "review",
                     <<"Review this PR", DiffOf(it)>>)]

ReviewEvent(response) ==
    IF response.review_decision = "approve" THEN "APPROVE"
    ELSE "REQUEST_CHANGES"

RECURSIVE RecordReviewsUnchecked(_, _, _, _)
RecordReviewsUnchecked(rs, r, required, n) ==
    IF n = 0 THEN rs
    ELSE [RecordReviewsUnchecked(rs, r, required, n - 1) EXCEPT !.responses =
             DictSet(@, required[n], ResponseOf(r, required[n]))]

\* the loop over zip(required_reviewers, responses), for reviewers 1..n
RECURSIVE RecordReviews(_, _, _, _)
RecordReviews(rs, r, required, n) ==
    IF n = 0 THEN rs
    ELSE LET before == RecordReviews(rs, r, required, n - 1)
             reviewer == required[n]
         IN IF call[r][reviewer] = "raised"
            THEN [before EXCEPT !.errors =
                     Append(@, ReviewErrorEntry(reviewer, result[r][reviewer]))]
            ELSE [before EXCEPT !.responses =
                     DictSet(@, reviewer, ResponseOf(r, reviewer))]

RECURSIVE ReviewPosts(_, _, _, _)
ReviewPosts(r, it, required, n) ==
    IF n = 0 THEN <<>>
    ELSE ReviewPosts(r, it, required, n - 1) \o
         (IF call[r][required[n]] = "returned"
             /\ github /\ it.github_pr_number # NoNumber
          THEN <<GhCall(r, "add_review_to_pr",
                        <<required[n], ReviewEvent(ResponseOf(r, required[n]))>>)>>
          ELSE <<>>)

\* an exception leaves process_review: it reaches process_task's handler, or
\* the caller when process_review was called directly
ReviewRaiseKeepingReviews(r, e) ==
    IF kind[r] = "task"
    THEN Fail(r, [state[r] EXCEPT !.responses =
                     DictUpdate(@, review_state[r].responses)], e)
    ELSE /\ exc' = [exc EXCEPT ![r] = e]
         /\ pc' = [pc EXCEPT ![r] = "raised"]
         /\ UNCHANGED state

\* an exception leaves process_review: its state is not returned, and in
\* process_task the handler of the task records it
ReviewRaise(r, e) ==
    IF kind[r] = "task"
    THEN Fail(r, state[r], e)
    ELSE /\ exc' = [exc EXCEPT ![r] = e]
         /\ pc' = [pc EXCEPT ![r] = "raised"]
         /\ UNCHANGED state

ReviewStart(r) ==
    /\ pc[r] = "start" /\ kind[r] = "review"
    /\ review_state' = [review_state EXCEPT ![r] =
                          NewWorkflowState(item[r].id, "review", now)]
    /\ \E f \in 0..Len(DiffCalls(r, item[r])) :
          /\ gh_log' = gh_log \o Attempted(DiffCalls(r, item[r]), f)
          /\ IF f = 0
             THEN /\ Launch(r, ReviewInvocations(item[r]))
                  /\ pc' = [pc EXCEPT ![r] = "review_gather"]
                  /\ UNCHANGED <<exc, state>>
             ELSE /\ ReviewRaise(r, GithubError)
                  /\ UNCHANGED <<call, prompts>>
    /\ now' = now + 1
    /\ UNCHANGED <<outer, wi, called, github, kind, item, active_workflows, result,
                   completion, gate>>

\* responses = await asyncio.gather(*review_tasks, return_exceptions=True)
ReviewGatherDone(r) ==
    /\ pc[r] = "review_gather"
    /\ LET required == RequiredReviewers(item[r].type)
           posting(n) == call[r][required[n]] = "returned"
                         /\ github /\ item[r].github_pr_number # NoNumber
       IN /\ \A i \in 1..Len(required) : Ended(r, required[i])
          /\ \E j \in {0} \cup {n \in 1..Len(required) : posting(n)} :
               IF j = 0
               THEN LET rs == RecordReviews(review_state[r], r, required,
                                            Len(required))
                    IN /\ review_state' = [review_state EXCEPT ![r] = rs]
                       /\ gh_log' = gh_log \o
                             ReviewPosts(r, item[r], required, Len(required))
                       /\ Launch(r, <<Invocation(item[r], "synthesizer",
                                        "synthesize_reviews",
                                        <<"Synthesize these reviews",
                                          FormatSynthesisInput(rs.responses)>>)>>)
                       /\ pc' = [pc EXCEPT ![r] = "review_synthesis"]
                       /\ UNCHANGED <<exc, state>>
               ELSE LET posts == ReviewPosts(r, item[r], required, j)
                    IN /\ review_state' = [review_state EXCEPT ![r] =
                             RecordReviews(@, r, required, j)]
                       /\ gh_log' = gh_log \o Attempted(posts, Len(posts))
                       /\ ReviewRaise(r, GithubError)
                       /\ UNCHANGED <<call, prompts>>
    /\ UNCHANGED <<outer, wi, called, github, kind, item, active_workflows, result,
                   completion, gate, now>>

\* ------------------------------------------------------------------------
\* process_task
\* ------------------------------------------------------------------------
PrepareTaskAfterCall(it, t) == it

\* task.github_branch = branch; task.transition_to(IN_PROGRESS)
PrepareTask(it, t) ==
    TransitionTo(IF github
                 THEN [it EXCEPT !.github_branch = BranchOf(it)]
                 ELSE it,
                 "in_progress", t)

\* process_task(task) up to its first await
BeginTask(r, it) ==
    /\ active_workflows' = Register(active_workflows, it, r)
    /\ LET s0 == NewWorkflowState(it.id, "planning", now)
           ops == IF github
                  THEN <<GhCall(r, "create_feature_branch", it.id)>>
                  ELSE <<>>
           task == PrepareTask(it, now)
       IN \E f \in 0..Len(ops) :
            /\ gh_log' = gh_log \o Attempted(ops, f)
            /\ IF f = 0
               THEN /\ state' = [state EXCEPT ![r] =
                                   [s0 EXCEPT !.phase = "implementation"]]
                    /\ item' = [item EXCEPT ![r] = task]
                    /\ Launch(r, <<Invocation(task, "utvecklar_uffe",
                                              "implement",
                                              <<"Implement this task">>)>>)
                    /\ pc' = [pc EXCEPT ![r] = "task_developer"]
                    /\ UNCHANGED exc
               ELSE /\ Fail(r, s0, GithubError)
                    /\ item' = [item EXCEPT ![r] = it]
                    /\ UNCHANGED <<call, prompts>>
    /\ now' = now + 1

TaskStart(r) ==
    /\ pc[r] = "start" /\ kind[r] = "task"
    /\ BeginTask(r, item[r])
    /\ UNCHANGED <<outer, wi, called, github, kind, review_state, result,
                   completion, gate>>

\* state.responses[p] = response; state.artifacts.extend(response.artifacts)
Collect(s, response) ==
    [s EXCEPT !.responses = DictSet(@, response.persona, response),
              !.artifacts = @ \o response.artifacts]

TesterAndWriterCalls(it, uffe) ==
    <<Invocation(it, "test_tina", "test",
                 <<"Write tests for this implementation",
                   SummarizeArtifacts(uffe.artifacts)>>),
      Invocation(it, "dok_daniel", "document",
                 <<"Update documentation for",
                   SummarizeArtifacts(uffe.artifacts)>>)>>

\* tina_response = await self._invoke_persona(TEST_TINA, task, "test", ...)
TesterCalls(it, uffe) ==
    <<Invocation(it, "test_tina", "test",
                 <<"Write tests for this implementation",
                   SummarizeArtifacts(uffe.artifacts)>>)>>

TaskDeveloperDone(r) ==
    /\ pc[r] = "task_developer" /\ Ended(r, "utvecklar_uffe")
    /\ IF call[r]["utvecklar_uffe"] = "raised"
       THEN /\ Fail(r, state[r], result[r]["utvecklar_uffe"])
            /\ UNCHANGED <<call, prompts>>
       ELSE LET uffe == ResponseOf(r, "utvecklar_uffe")
            IN /\ state' = [state EXCEPT ![r] = Collect(@, uffe)]
               /\ Launch(r, TesterCalls(item[r], uffe))
               /\ pc' = [pc EXCEPT ![r] = "task_tester"]
               /\ UNCHANGED exc
    /\ UNCHANGED <<outer, wi, called, github, kind, item, review_state, active_workflows,
                   result, completion, gh_log, gate, now>>

TaskTesterDone(r) ==
    /\ pc[r] = "task_tester" /\ Ended(r, "test_tina")
    /\ IF call[r]["test_tina"] = "raised"
       THEN /\ Fail(r, state[r], result[r]["test_tina"])
            /\ UNCHANGED <<call, prompts>>
       ELSE LET s1 == Collect(state[r], ResponseOf(r, "test_tina"))
            IN /\ state' = [state EXCEPT ![r] = s1]
               /\ Launch(r, <<Invocation(item[r], "dok_daniel", "document",
                                 <<"Update documentation for",
                                   SummarizeArtifacts(s1.artifacts)>>)>>)
               /\ pc' = [pc EXCEPT ![r] = "task_writer"]
               /\ UNCHANGED exc
    /\ UNCHANGED <<outer, wi, called, github, kind, item, review_state, active_workflows,
                   result, completion, gh_log, gate, now>>

\* commit and pull request, then the synchronous head of process_review
TaskWriterDone(r) ==
    /\ pc[r] = "task_writer" /\ Ended(r, "dok_daniel")
    /\ IF call[r]["dok_daniel"] = "raised"
       THEN /\ Fail(r, state[r], result[r]["dok_daniel"])
            /\ UNCHANGED <<item, review_state, call, prompts, gh_log>>
       ELSE LET s1 == Collect(state[r], ResponseOf(r, "dok_daniel"))
                publish == github /\ item[r].github_branch # None
                code == SelectSeq(s1.artifacts, HasTargetPath)
                ops == IF publish
                       THEN (IF code # <<>>
                             THEN <<GhCall(r, "commit_multiple_artifacts",
                                           Len(code))>>
                             ELSE <<>>)
                            \o <<GhCall(r, "create_pull_request", item[r].id)>>
                       ELSE <<>>
                with_pr == IF publish
                           THEN [item[r] EXCEPT !.github_pr_number = PrNumber]
                           ELSE item[r]
                it2 == TransitionTo(with_pr, "in_review", now)
                s2 == [s1 EXCEPT !.phase = "review"]
                all == ops \o DiffCalls(r, it2)
            IN \E f \in 0..Len(all) :
                 /\ gh_log' = gh_log \o Attempted(all, f)
                 /\ IF f = 0
                    THEN /\ item' = [item EXCEPT ![r] = it2]
                         /\ state' = [state EXCEPT ![r] = s2]
                         /\ review_state' = [review_state EXCEPT ![r] =
                               NewWorkflowState(it2.id, "review", now)]
                         /\ Launch(r, ReviewInvocations(it2))
                         /\ pc' = [pc EXCEPT ![r] = "review_gather"]
                         /\ UNCHANGED exc
                    ELSE IF f <= Len(ops)
                    THEN /\ Fail(r, s1, GithubError)
                         /\ UNCHANGED <<item, review_state, call, prompts>>
                    ELSE /\ item' = [item EXCEPT ![r] = it2]
                         /\ review_state' = [review_state EXCEPT ![r] =
                               NewWorkflowState(it2.id, "review", now)]
                         /\ Fail(r, s2, GithubError)
                         /\ UNCHANGED <<call, prompts>>
    /\ now' = now + 1
    /\ UNCHANGED <<outer, wi, called, github, kind, active_workflows, result, completion, gate>>

\* follow-up actions of the responses that request changes, in dict order
RECURSIVE CollectPendingActions(_)
CollectPendingActions(responses) ==
    IF responses = <<>> THEN <<>>
    ELSE (IF responses[1][2].review_decision = "request_changes"
          THEN responses[1][2].follow_up_actions ELSE <<>>)
         \o CollectPendingActions(Tail(responses))

MergeOnAnyOutcome(it, approved, t) == TransitionTo(it, "merged", t)

\* task.transition_to(WorkItemStatus.MERGED) sits inside the approved branch
StatusAfterGate(it, approved, t) ==
    IF approved THEN TransitionTo(it, "merged", t) ELSE it

MergeCalls(r, it) ==
    IF github /\ it.github_pr_number # NoNumber
    THEN <<GhCall(r, "merge_pull_request", it.github_pr_number)>>
    ELSE <<>>

MergeRaisedAfterTransition(it, t) == TransitionTo(it, "merged", t)

\* merge_pull_request raised: task.transition_to(MERGED) is not reached
MergeRaised(it, t) == it

\* the tail of process_review, then (in process_task) the merge gate
ReviewSynthesisDone(r) ==
    /\ pc[r] = "review_synthesis" /\ Ended(r, "synthesizer")
    /\ IF call[r]["synthesizer"] = "raised"
       THEN /\ ReviewRaise(r, result[r]["synthesizer"])
            /\ UNCHANGED <<item, review_state, gh_log, gate, now>>
       ELSE LET rs == [review_state[r] EXCEPT !.responses =
                          DictSet(@, "synthesizer",
                                  ResponseOf(r, "synthesizer"))]
                s1 == [state[r] EXCEPT !.responses =
                          DictUpdate(@, rs.responses)]
                approved == AllReviewsApproved(item[r].type, s1.responses)
                ops == IF approved THEN MergeCalls(r, item[r]) ELSE <<>>
            IN /\ review_state' = [review_state EXCEPT ![r] = rs]
               /\ IF kind[r] = "review"
                  THEN /\ pc' = [pc EXCEPT ![r] = "returned"]
                       /\ UNCHANGED <<item, state, gh_log, exc, gate, now>>
                  ELSE /\ gate' = [gate EXCEPT ![r] =
                             IF approved THEN "passed" ELSE "failed"]
                       /\ now' = now + 1
                       /\ \E f \in 0..Len(ops) :
                            /\ gh_log' = gh_log \o Attempted(ops, f)
                            /\ IF f # 0
                               THEN /\ Fail(r, [s1 EXCEPT !.phase = "merge"],
                                            GithubError)
                                    /\ item' = [item EXCEPT ![r] =
                                          MergeRaised(@, now)]
                               ELSE /\ item' = [item EXCEPT ![r] =
                                          StatusAfterGate(@, approved, now)]
                                    /\ state' = [state EXCEPT ![r] =
                                          IF approved
                                          THEN Complete(
                                                 [s1 EXCEPT !.phase = "merge"],
                                                 now)
                                          ELSE Complete(
                                                 [s1 EXCEPT
                                                    !.pending_actions = @ \o
                                                       CollectPendingActions(
                                                          s1.responses)],
                                                 now)]
                                    /\ pc' = [pc EXCEPT ![r] = "returned"]
                                    /\ UNCHANGED exc
    /\ UNCHANGED <<outer, wi, called, github, kind, active_workflows, call, result, prompts,
                   completion>>

\* ------------------------------------------------------------------------
\* Specification of one workflow run
\* ------------------------------------------------------------------------
Next ==
    \E r \in Runs :
        \/ EpicStart(r)
        \/ EpicPlanningDone(r)
        \/ EpicDesignDone(r)
        \/ EpicDesignFail(r)
        \/ EpicSynthesisDone(r)
        \/ TaskStart(r)
        \/ TaskDeveloperDone(r)
        \/ TaskTesterDone(r)
        \/ TaskWriterDone(r)
        \/ ReviewStart(r)
        \/ ReviewGatherDone(r)
        \/ ReviewSynthesisDone(r)
        \/ \E p \in PersonaType : RunnerReturn(r, p)
        \/ \E p \in PersonaType : RunnerRaise(r, p)

Spec == Init /\ [][Next]_vars

\* Two workflow calls on the same Orchestrator, over work items with
\* different ids, interleaved at the awaits of the persona calls. The
\* items are stories, or bugs under process_review.
ConcurrentTypes == {"story", "bug"}

Init2 ==
    /\ InitCommon
    /\ \E k \in [Runs -> {"epic", "task", "review"}],
          t \in [Runs -> ConcurrentTypes] :
          /\ \A r \in Runs : k[r] # "review" => t[r] = "story"
          /\ kind = k
          /\ item = [r \in Runs |->
                       NewWorkItem(ItemIdOf(r), t[r],
                                   IF k[r] = "review" /\ github
                                   THEN PrNumber ELSE NoNumber, 0)]
    /\ pc = [r \in Runs |-> "start"]
    /\ state = [r \in Runs |-> Unstarted]

Spec2 == Init2 /\ [][Next]_vars

TypeOK ==
    /\ github \in BOOLEAN
    /\ \A r \in Runs :
         /\ kind[r] \in {"off", "epic", "task", "review", "gate", "event"}
         /\ item[r].type \in WorkItemType
         /\ item[r].status \in WorkItemStatus
         /\ state[r].phase \in WorkflowPhase
         /\ pc[r] \in {"off", "start", "epic_planning", "epic_design",
                       "epic_synthesis", "task_developer", "task_tester",
                       "task_writer", "review_gather", "review_synthesis",
                       "returned", "raised", "gate_call", "gate_done"}
         /\ gate[r] \in {"unset", "passed", "failed"}

\* ------------------------------------------------------------------------
\* Specification of _all_reviews_approved as a function of its argument:
\* a WorkflowState holding any combination of responses is handed to it.
\* ------------------------------------------------------------------------
Decisions == ReviewDecision \cup {None}

GivenResponse(p, d) ==
    IF d = "absent" THEN <<>>
    ELSE <<<<p, [NewPersonaResponse(p, 1) EXCEPT !.review_decision = d]>>>>

GateInit ==
    /\ InitCommon
    /\ kind = [r \in Runs |-> IF r = 1 THEN "gate" ELSE "off"]
    /\ pc = [r \in Runs |-> IF r = 1 THEN "gate_call" ELSE "off"]
    /\ \E t \in WorkItemType : item = [r \in Runs |-> NewWorkItem(ItemIdOf(r), t, NoNumber, 0)]
    /\ \E du, da, ds \in Decisions \cup {"absent"} :
          state = [r \in Runs |->
                     IF r = 1
                     THEN [NewWorkflowState(ItemIdOf(r), "review", 0)
                              EXCEPT !.responses =
                                 GivenResponse("utvecklar_uffe", du)
                                 \o GivenResponse("arkitekt_alf", da)
                                 \o GivenResponse("sakerhets_sara", ds)]
                     ELSE Unstarted]

GateEval(r) ==
    /\ pc[r] = "gate_call"
    /\ gate' = [gate EXCEPT ![r] =
                  IF AllReviewsApproved(item[r].type, state[r].responses)
                  THEN "passed" ELSE "failed"]
    /\ pc' = [pc EXCEPT ![r] = "gate_done"]
    /\ UNCHANGED <<outer, wi, called, github, kind, item, state, review_state, active_workflows,
                   call, result, prompts, completion, gh_log, exc, now>>

GateNext == \E r \in Runs : GateEval(r)

GateSpec == GateInit /\ [][GateNext]_vars

\* ------------------------------------------------------------------------
\* Specification of WorkItem (core/models.py): any sequence of calls of
\* transition_to, add_acceptance_criterion, mark_criterion_met and
\* all_criteria_met on one freshly constructed work item.
\* ------------------------------------------------------------------------
MaxClock == 5
MaxCriteria == 2

Verifiers == {"test_tina", "sakerhets_sara"}

ItemInit ==
    /\ InitCommon
    /\ ~github
    /\ kind = [r \in Runs |-> "off"]
    /\ pc = [r \in Runs |-> "off"]
    /\ item = [r \in Runs |-> NewWorkItem(ItemIdOf(r), "task", NoNumber, 0)]
    /\ state = [r \in Runs |-> Unstarted]

ItemFrame ==
    UNCHANGED <<outer, github, kind, item, state, review_state, active_workflows,
                pc, call, result, prompts, completion, gh_log, exc, gate>>

ItemTransitionTo ==
    /\ now < MaxClock
    /\ \E new_status \in WorkItemStatus :
          /\ wi' = TransitionTo(wi, new_status, now)
          /\ called' = [NoCall EXCEPT !.op = "transition_to",
                                      !.status = new_status, !.at = now]
    /\ now' = now + 1
    /\ ItemFrame

ItemAddCriterion ==
    /\ now < MaxClock
    /\ Len(wi.acceptance_criteria) < MaxCriteria
    /\ \E description \in Texts :
          wi' = AddAcceptanceCriterion(wi, Len(wi.acceptance_criteria) + 1,
                                       description)
    /\ called' = [NoCall EXCEPT !.op = "add_acceptance_criterion", !.at = now]
    /\ now' = now + 1
    /\ ItemFrame

ItemMarkCriterionMet ==
    /\ now < MaxClock
    /\ \E criterion_id \in 1..(MaxCriteria + 1), verified_by \in Verifiers :
          /\ wi' = MarkCriterionMet(wi, criterion_id, verified_by, now)
          /\ called' = [NoCall EXCEPT !.op = "mark_criterion_met",
                                      !.criterion_id = criterion_id,
                                      !.by = verified_by, !.at = now]
    /\ now' = now + 1
    /\ ItemFrame

ItemAllCriteriaMet ==
    /\ now < MaxClock
    /\ called' = [NoCall EXCEPT !.op = "all_criteria_met", !.at = now,
                                !.ret = AllCriteriaMet(wi)]
    /\ now' = now + 1
    /\ UNCHANGED wi
    /\ ItemFrame

ItemNext ==
    \/ ItemTransitionTo
    \/ ItemAddCriterion
    \/ ItemMarkCriterionMet
    \/ ItemAllCriteriaMet

ItemSpec == ItemInit /\ [][ItemNext]_vars

\* ------------------------------------------------------------------------
\* Specification of ApiDocumentation (src/api_documentation.py): any
\* sequence of add_endpoint and get_documentation calls on one object.
\* ------------------------------------------------------------------------
MaxEndpoints == 2

Paths == {"/test1", "/test2"}
Methods == {"GET", "POST"}
ParameterDicts == {<<>>, <<<<"param1", "description1">>>>}
ResponseDicts == {<<<<"key1", "value1">>>>, <<<<"key2", "value2">>>>}

Endpoint(path, method, parameters, response) ==
    [path |-> path, method |-> method, parameters |-> parameters,
     response |-> response]

AddEndpointByPath(endpoints, endpoint) ==
    IF \E i \in 1..Len(endpoints) : endpoints[i].path = endpoint.path
    THEN [i \in 1..Len(endpoints) |->
             IF endpoints[i].path = endpoint.path THEN endpoint
             ELSE endpoints[i]]
    ELSE Append(endpoints, endpoint)

\* self.endpoints.append(endpoint)
AddEndpoint(endpoints, endpoint) == Append(endpoints, endpoint)

ApiInit ==
    /\ InitCommon
    /\ ~github
    /\ kind = [r \in Runs |-> "off"]
    /\ pc = [r \in Runs |-> "off"]
    /\ item = [r \in Runs |-> NewWorkItem(ItemIdOf(r), "task", NoNumber, 0)]
    /\ state = [r \in Runs |-> Unstarted]

ApiFrame ==
    UNCHANGED <<event, issue, parsed, repl, wi, called, github, kind, item,
                state, review_state, active_workflows, pc, call, result,
                prompts, completion, gh_log, exc, gate, now>>

\* get_documentation returns self.endpoints itself, so the list a caller
\* holds follows every later add_endpoint
ApiAddEndpoint ==
    /\ Len(api.endpoints) < MaxEndpoints
    /\ \E path \in Paths, method \in Methods,
          parameters \in ParameterDicts, response \in ResponseDicts :
          LET endpoint == Endpoint(path, method, parameters, response)
              endpoints == AddEndpoint(api.endpoints, endpoint)
          IN api' = [endpoints |-> endpoints,
                     calls |-> Append(api.calls,
                                      <<path, method, parameters, response>>),
                     asked |-> api.asked,
                     returned |-> IF api.asked THEN endpoints
                                  ELSE api.returned]
    /\ ApiFrame

ApiGetDocumentation ==
    /\ ~api.asked
    /\ api' = [api EXCEPT !.asked = TRUE, !.returned = api.endpoints]
    /\ ApiFrame

ApiNext == ApiAddEndpoint \/ ApiGetDocumentation

ApiSpec == ApiInit /\ [][ApiNext]_vars

\* ------------------------------------------------------------------------
\* Specification of the issue round trip (github_integration/client.py): a
\* WorkItem is written to an issue with create_issue_from_work_item or
\* update_issue_from_work_item and read back with
\* parse_work_item_from_issue. The body is a sequence of lines; a line
\* "key: value" is the pair <<key, value>>.
\* ------------------------------------------------------------------------
IssueNumber == 12

Priorities == {1, 3}
ParentIds == {None, "id2"}
LabelLists == {<<>>, <<"urgent">>, <<"bug">>}

OpenMarker == <<"<!-- AI-DEV-TEAM-METADATA", "">>
CloseMarker == <<"-->", "">>

\* str(n) and int(s)
StrOfInt(n) == ToString(n)
IntOfStr(s) == CHOOSE n \in 0..9 : ToString(n) = s

\* work_item_to_markdown: the status line of the rendered body
Markdown(it) == <<<<"**Status:**", it.status>>>>

\* the metadata comment of create_issue_from_work_item
CreateMetadata(it) ==
    <<OpenMarker,
      <<"work_item_id", it.id>>,
      <<"type", it.type>>,
      <<"parent_id", IF it.parent_id # None THEN it.parent_id ELSE "none">>,
      <<"priority", StrOfInt(it.priority)>>,
      CloseMarker>>

\* the metadata comment of update_issue_from_work_item
UpdateMetadata(it) ==
    <<OpenMarker,
      <<"work_item_id", it.id>>,
      <<"type", it.type>>,
      <<"parent_id", IF it.parent_id # None THEN it.parent_id ELSE "none">>,
      <<"priority", StrOfInt(it.priority)>>,
      <<"status", it.status>>,
      CloseMarker>>

StatusLabels(it) ==
    (IF it.status = "blocked" THEN <<"blocked">> ELSE <<>>)
    \o (IF it.status = "in_review" THEN <<"in-review">> ELSE <<>>)

\* re.search(r'<!-- AI-DEV-TEAM-METADATA\n(.*?)\n-->', body): the lines
\* between the first opening marker and the first closing marker after it
MetadataLines(body) ==
    LET opens == {i \in 1..Len(body) : body[i] = OpenMarker}
        open == CHOOSE i \in opens : \A j \in opens : i <= j
        closes == {i \in 1..Len(body) : i > open /\ body[i] = CloseMarker}
        close == CHOOSE i \in closes : \A j \in closes : i <= j
    IN IF opens = {} \/ closes = {} THEN <<>>
       ELSE SubSeq(body, open + 1, close - 1)

HasMetadata(body) ==
    \E i, j \in 1..Len(body) :
        i < j /\ body[i] = OpenMarker /\ body[j] = CloseMarker

\* the first label that names a work item type, TASK without one
TypeFromLabels(labels) ==
    LET typed == SelectSeq(labels, LAMBDA l : l \in WorkItemType)
    IN IF typed = <<>> THEN "task" ELSE typed[1]

ParseWorkItemFromIssue(iss, t) ==
    IF ~HasMetadata(iss.body) THEN <<>>
    ELSE LET metadata == DictUpdate(<<>>, MetadataLines(iss.body))
             base == [NewWorkItem(IF DictHas(metadata, "work_item_id")
                                  THEN DictGet(metadata, "work_item_id")
                                  ELSE StrOfInt(iss.number),
                                  TypeFromLabels(iss.labels), NoNumber, t)
                         EXCEPT !.github_issue_number = iss.number,
                                !.labels = SelectSeq(iss.labels,
                                              LAMBDA l : l \notin WorkItemType)]
             with_parent ==
                 IF DictHas(metadata, "parent_id")
                    /\ DictGet(metadata, "parent_id") # "none"
                 THEN [base EXCEPT !.parent_id = DictGet(metadata, "parent_id")]
                 ELSE base
         IN <<IF DictHas(metadata, "priority")
              THEN [with_parent EXCEPT !.priority =
                       IntOfStr(DictGet(metadata, "priority"))]
              ELSE with_parent>>

IssueInit ==
    /\ InitShared
    /\ github
    /\ kind = [r \in Runs |-> "off"]
    /\ pc = [r \in Runs |-> "off"]
    /\ item = [r \in Runs |-> NewWorkItem(ItemIdOf(r), "task", NoNumber, 0)]
    /\ state = [r \in Runs |-> Unstarted]
    /\ \E type \in WorkItemType, status \in WorkItemStatus,
          parent_id \in ParentIds, priority \in Priorities,
          labels \in LabelLists :
          wi = [NewWorkItem("id1", type, NoNumber, 0)
                   EXCEPT !.status = status, !.parent_id = parent_id,
                          !.priority = priority, !.labels = labels]

IssueFrame ==
    UNCHANGED <<event, repl, api, called, github, kind, item, state,
                review_state, active_workflows, pc, call, result, prompts,
                completion, gh_log, exc, gate, now>>

\* repo.create_issue(title=..., body=metadata + body, labels=[type] + labels)
CreatedIssue(it) ==
    [number |-> IssueNumber,
     body |-> CreateMetadata(it) \o Markdown(it),
     labels |-> <<it.type>> \o it.labels]

CreateIssueFromWorkItem ==
    /\ wi.github_issue_number = NoNumber
    /\ issue' = CreatedIssue(wi)
    /\ wi' = [wi EXCEPT !.github_issue_number = IssueNumber]
    /\ parsed' = <<>>
    /\ IssueFrame

\* raises ValueError for a work item without an issue
UpdateIssueFromWorkItem ==
    /\ wi.github_issue_number # NoNumber
    /\ issue' = [issue EXCEPT
                    !.body = UpdateMetadata(wi) \o Markdown(wi),
                    !.labels = <<wi.type>> \o wi.labels \o StatusLabels(wi)]
    /\ parsed' = <<>>
    /\ UNCHANGED wi
    /\ IssueFrame

ParseIssue ==
    /\ issue.number # NoNumber
    /\ parsed = <<>>
    /\ parsed' = ParseWorkItemFromIssue(issue, now)
    /\ UNCHANGED <<wi, issue>>
    /\ IssueFrame

IssueNext ==
    \/ CreateIssueFromWorkItem
    \/ UpdateIssueFromWorkItem
    \/ ParseIssue

IssueSpec == IssueInit /\ [][IssueNext]_vars

\* ------------------------------------------------------------------------
\* Specification of handle_github_event: one event is handed to a fresh
\* Orchestrator; when it is routed to process_epic the run goes on as an
\* epic workflow.
\* ------------------------------------------------------------------------
EventTypes == {"issues", "pull_request", "issue_comment", "push"}
EventActions == {"opened", "assigned", "review_requested", "created", "closed"}
Bodies == {None, "@AI-Team deploy", "thanks"}

HandlerOfAnyIssueEvent(event_type, action) ==
    IF event_type = "issues" THEN "_handle_issue_opened"
    ELSE IF <<event_type, action>> = <<"pull_request", "opened">>
    THEN "_handle_pr_opened"
    ELSE IF <<event_type, action>> = <<"pull_request", "review_requested">>
    THEN "_handle_review_requested"
    ELSE IF <<event_type, action>> = <<"issue_comment", "created">>
    THEN "_handle_comment_created"
    ELSE None

\* handlers.get((event.event_type, event.action))
HandlerOf(event_type, action) ==
    IF <<event_type, action>> = <<"issues", "opened">>
    THEN "_handle_issue_opened"
    ELSE IF <<event_type, action>> = <<"issues", "assigned">>
    THEN "_handle_issue_assigned"
    ELSE IF <<event_type, action>> = <<"pull_request", "opened">>
    THEN "_handle_pr_opened"
    ELSE IF <<event_type, action>> = <<"pull_request", "review_requested">>
    THEN "_handle_review_requested"
    ELSE IF <<event_type, action>> = <<"issue_comment", "created">>
    THEN "_handle_comment_created"
    ELSE None

\* the issues repo.get_issue may return: written by this system from a work
\* item of any type, or by someone else without the metadata block
FetchedIssues(r) ==
    {CreatedIssue(NewWorkItem(ItemIdOf(r), t, NoNumber, 0)) :
        t \in WorkItemType}
    \cup {[number |-> IssueNumber, body |-> <<>>, labels |-> <<"epic">>]}

EventInit ==
    /\ InitCommon
    /\ kind = [r \in Runs |-> IF r = 1 THEN "event" ELSE "off"]
    /\ pc = [r \in Runs |-> IF r = 1 THEN "start" ELSE "off"]
    /\ item = [r \in Runs |-> NewWorkItem(ItemIdOf(r), "task", NoNumber, 0)]
    /\ state = [r \in Runs |-> Unstarted]

EventDone(r) ==
    /\ pc' = [pc EXCEPT ![r] = "returned"]
    /\ UNCHANGED <<item, state, active_workflows, call, prompts, exc, now>>

\* _handle_issue_opened
HandleIssueOpened(r) ==
    IF ~github
    THEN EventDone(r) /\ UNCHANGED <<gh_log, parsed>>
    ELSE \E ok \in BOOLEAN, iss \in FetchedIssues(r) :
           LET work_item == ParseWorkItemFromIssue(iss, now)
           IN /\ gh_log' = Append(gh_log,
                              [GhCall(r, "get_issue", iss.number)
                                  EXCEPT !.ok = ok])
              /\ IF ~ok
                 THEN /\ exc' = [exc EXCEPT ![r] = GithubError]
                      /\ pc' = [pc EXCEPT ![r] = "raised"]
                      /\ UNCHANGED <<item, state, active_workflows, call,
                                     prompts, parsed, now>>
                 ELSE /\ parsed' = work_item
                      /\ IF work_item # <<>> /\ work_item[1].type = "epic"
                         THEN /\ item' = [item EXCEPT ![r] = work_item[1]]
                              /\ BeginEpic(r, work_item[1])
                              /\ UNCHANGED exc
                         ELSE EventDone(r)

HandleGithubEvent(r) ==
    /\ pc[r] = "start" /\ kind[r] = "event"
    /\ \E event_type \in EventTypes, action \in EventActions,
          body \in Bodies :
          /\ event' = [event EXCEPT ![r] =
                          [event_type |-> event_type, action |-> action,
                           body |-> body]]
          /\ IF HandlerOf(event_type, action) = "_handle_issue_opened"
             THEN HandleIssueOpened(r)
             ELSE EventDone(r) /\ UNCHANGED <<gh_log, parsed>>
    /\ UNCHANGED <<issue, repl, api, wi, called, github, kind, review_state,
                   result, completion, gate>>

EventNext ==
    \E r \in Runs :
        \/ HandleGithubEvent(r)
        \/ EpicPlanningDone(r)
        \/ EpicDesignDone(r)
        \/ EpicDesignFail(r)
        \/ EpicSynthesisDone(r)
        \/ \E p \in PersonaType : RunnerReturn(r, p)
        \/ \E p \in PersonaType : RunnerRaise(r, p)

EventSpec == EventInit /\ [][EventNext]_vars

\* ------------------------------------------------------------------------
\* interactive_mode (main.py): the read-eval-print loop.  A line typed at
\* the prompt is the sequence of its words, so strip() has already acted;
\* input() may also raise instead of returning a line.
\* ------------------------------------------------------------------------
MaxCommands == 3

Lines == {<<>>, <<"quit">>, <<"EXIT">>, <<"q">>, <<"help">>,
          <<"epic", "X">>, <<"epic">>, <<"task", "Y">>, <<"status">>,
          <<"deploy">>}
InputErrors == {"KeyboardInterrupt", "EOFError"}

\* str.lower() on the words that occur in Lines
Lower(word) == IF word = "EXIT" THEN "exit" ELSE word

Typed(line) == [raised |-> None, line |-> line]
Interrupted(e) == [raised |-> e, line |-> <<>>]

\* user_input.lower() in ("quit", "exit", "q")
IsQuit(line) == Len(line) = 1 /\ Lower(line[1]) \in {"quit", "exit", "q"}

\* user_input.lower().startswith("epic ") on a stripped line
StartsWith(line, word) == Len(line) > 1 /\ Lower(line[1]) = word

IsWord(line, word) == Len(line) = 1 /\ Lower(line[1]) = word

\* A session is followed through one workflow: once run 1 is used, a
\* further epic or task command is not taken.
SessionRuns == {1}
FreeRuns == {r \in SessionRuns : pc[r] = "off"}
NextRun == CHOOSE r \in FreeRuns : \A q \in FreeRuns : r <= q

\* status: if orchestrator.active_workflows: ... else: "No active workflows"
StatusOutput(workflows) ==
    IF workflows # {} THEN <<"active_workflows", workflows>>
    ELSE <<"no_active_workflows">>

AfterExceptionExit(rp) == [rp EXCEPT !.pc = "exited", !.output = <<"error">>]

\* except Exception as e: print(f"Error: {e}"), and the loop goes round
AfterException(rp) == [rp EXCEPT !.pc = "prompt", !.output = <<"error">>]

\* except KeyboardInterrupt: print("Goodbye!"); break
AfterKeyboardInterrupt(rp) ==
    [rp EXCEPT !.pc = "exited", !.output = <<"goodbye">>]

AfterInputError(rp, e) ==
    IF e = "KeyboardInterrupt" THEN AfterKeyboardInterrupt(rp)
    ELSE AfterException(rp)

\* python main.py interactive, before interactive_mode is entered
ReplInit ==
    /\ InitCommon
    /\ ~github
    /\ kind = [r \in Runs |-> "off"]
    /\ pc = [r \in Runs |-> "off"]
    /\ item = [r \in Runs |-> NewWorkItem(ItemIdOf(r), "task", NoNumber, 0)]
    /\ state = [r \in Runs |-> Unstarted]

ReplOuterFrame == UNCHANGED <<event, issue, parsed, api, wi, called, github>>

ReplStay ==
    UNCHANGED <<kind, item, state, review_state, active_workflows, pc, call,
                result, prompts, completion, gh_log, exc, gate, now>>

\* print_banner(); orchestrator = Orchestrator(); the first prompt
ReplOpen ==
    /\ repl.pc = "off"
    /\ repl' = [repl EXCEPT !.pc = "prompt", !.output = <<"banner">>,
                            !.workflows = {}]
    /\ ReplOuterFrame
    /\ ReplStay

\* await process_epic(description, Path(".")): run_epic_workflow builds the
\* Epic and hands it to an Orchestrator of its own
ReplEpic(rp) ==
    LET r == NextRun
        epic == NewWorkItem(ItemIdOf(r), "epic", NoNumber, now)
    IN /\ kind' = [kind EXCEPT ![r] = "epic"]
       /\ item' = [item EXCEPT ![r] = epic]
       /\ BeginEpic(r, epic)
       /\ repl' = [rp EXCEPT !.pc = "awaiting", !.awaiting = r,
                             !.ran = @ \cup {r},
                             !.output = <<"processing_epic">>]
       /\ UNCHANGED <<review_state, result, completion, gh_log, exc, gate>>

\* the description lines are read with input(), then run_task_workflow
\* hands the task to an Orchestrator of its own
ReplTask(rp) ==
    \E e \in InputErrors \cup {None} :
        IF e # None
        THEN /\ repl' = AfterInputError([rp EXCEPT !.input = Interrupted(e)],
                                        e)
             /\ ReplStay
        ELSE LET r == NextRun
                 task == NewWorkItem(ItemIdOf(r), "task", NoNumber, now)
             IN /\ kind' = [kind EXCEPT ![r] = "task"]
                /\ BeginTask(r, task)
                /\ repl' = [rp EXCEPT !.pc = "awaiting", !.awaiting = r,
                                      !.ran = @ \cup {r},
                                      !.input = Typed(<<>>),
                                      !.output = <<"enter_description">>]
                /\ UNCHANGED <<review_state, result, completion, gate>>

\* one turn of the loop, from input() to the command's first await
ReplRead ==
    /\ repl.pc = "prompt"
    /\ repl.read < MaxCommands
    /\ ReplOuterFrame
    /\ \/ \E e \in InputErrors :
            /\ repl' = AfterInputError(
                          [repl EXCEPT !.input = Interrupted(e),
                                       !.read = @ + 1], e)
            /\ ReplStay
       \/ \E line \in Lines :
            LET rp == [repl EXCEPT !.input = Typed(line), !.read = @ + 1]
            IN CASE line = <<>> ->
                      repl' = [rp EXCEPT !.output = <<>>] /\ ReplStay
                 [] IsQuit(line) ->
                      /\ repl' = [rp EXCEPT !.pc = "exited",
                                            !.output = <<"goodbye">>]
                      /\ ReplStay
                 [] IsWord(line, "help") ->
                      repl' = [rp EXCEPT !.output = <<"help">>] /\ ReplStay
                 [] StartsWith(line, "epic") ->
                      FreeRuns # {} /\ ReplEpic(rp)
                 [] StartsWith(line, "task") ->
                      FreeRuns # {} /\ ReplTask(rp)
                 [] IsWord(line, "status") ->
                      /\ repl' = [rp EXCEPT
                                    !.output = StatusOutput(rp.workflows)]
                      /\ ReplStay
                 [] OTHER ->
                      /\ repl' = [rp EXCEPT !.output = <<"unknown_command">>]
                      /\ ReplStay

\* the awaited workflow is over: its exception reaches the loop's handler,
\* or its state is reported (process_epic writes the synthesis file first,
\* and open() may raise OSError)
ReplResume ==
    /\ repl.pc = "awaiting"
    /\ pc[repl.awaiting] \in {"returned", "raised"}
    /\ IF pc[repl.awaiting] = "raised"
       THEN repl' = AfterException(repl)
       ELSE IF kind[repl.awaiting] = "epic"
            THEN \E saved \in BOOLEAN :
                   repl' = IF saved
                           THEN [repl EXCEPT !.pc = "prompt",
                                             !.output = <<"epic_saved">>]
                           ELSE AfterException(repl)
            ELSE repl' = [repl EXCEPT !.pc = "prompt",
                                      !.output = <<"task_completed">>]
    /\ ReplOuterFrame
    /\ ReplStay

ReplNext ==
    \/ ReplOpen
    \/ ReplRead
    \/ ReplResume
    \/ \E r \in SessionRuns :
        \/ EpicPlanningDone(r)
        \/ EpicDesignDone(r)
        \/ EpicDesignFail(r)
        \/ EpicSynthesisDone(r)
        \/ TaskDeveloperDone(r)
        \/ TaskTesterDone(r)
        \/ TaskWriterDone(r)
        \/ ReviewGatherDone(r)
        \/ ReviewSynthesisDone(r)
        \/ \E p \in PersonaType : RunnerReturn(r, p)
        \/ \E p \in PersonaType : RunnerRaise(r, p)

ReplSpec == ReplInit /\ [][ReplNext]_vars

\* ------------------------------------------------------------------------
\* Properties
\* ------------------------------------------------------------------------
TaskRuns == {r \in Runs : kind[r] = "task"}
EpicRuns == {r \in Runs : kind[r] = "epic"}
ReviewingRuns == {r \in Runs : kind[r] \in {"task", "review"}}

RequiredSet(type) ==
    {RequiredReviewers(type)[i] : i \in 1..Len(RequiredReviewers(type))}

ApprovedBy(responses, p) ==
    \E i \in 1..Len(responses) :
        responses[i][1] = p /\ responses[i][2].review_decision = "approve"

Over(r) == pc[r] \in {"returned", "raised"}

Invoked(r, p) == \E i \in 1..Len(prompts[r]) : prompts[r][i].persona = p

TimesInvoked(r, p) ==
    Cardinality({i \in 1..Len(prompts[r]) : prompts[r][i].persona = p})

GhCalls(r, op) ==
    {i \in 1..Len(gh_log) : gh_log[i].run = r /\ gh_log[i].op = op}

NoCollaboratorFailure(r) ==
    \A i \in 1..Len(gh_log) : gh_log[i].run = r => gh_log[i].ok

\* C1: in every run of process_task the work item is MERGED only if the gate
\* passed with an APPROVE response of every required reviewer in
\* state.responses, and merge_pull_request is called only then, and only with
\* a collaborator configured and a PR number on the work item.
C1_MergeOnlyWhenApproved ==
    \A r \in TaskRuns :
        /\ item[r].status = "merged" =>
              /\ gate[r] = "passed"
              /\ \A p \in RequiredSet(item[r].type) :
                    ApprovedBy(state[r].responses, p)
        /\ GhCalls(r, "merge_pull_request") # {} =>
              /\ gate[r] = "passed"
              /\ \A p \in RequiredSet(item[r].type) :
                    ApprovedBy(state[r].responses, p)
              /\ github
              /\ item[r].github_pr_number # NoNumber

C1_Witness ==
    \E r \in TaskRuns :
        /\ item[r].status = "merged"
        /\ GhCalls(r, "merge_pull_request") # {}

\* C2: for a Task (required reviewers Architect and Security) the gate is true
\* exactly when both have a response and both responses carry APPROVE.
C2_GateIffBothApprove ==
    \A r \in Runs :
        (pc[r] = "gate_done" /\ item[r].type = "task") =>
            (gate[r] = "passed" <=>
                /\ ApprovedBy(state[r].responses, "arkitekt_alf")
                /\ ApprovedBy(state[r].responses, "sakerhets_sara"))

C2_Witness ==
    \E r \in Runs :
        /\ pc[r] = "gate_done" /\ item[r].type = "task"
        /\ gate[r] = "passed"
        /\ ApprovedBy(state[r].responses, "arkitekt_alf")
        /\ ApprovedBy(state[r].responses, "sakerhets_sara")

RequiredTableAsSpecified ==
    /\ RequiredSet("task") = {"arkitekt_alf", "sakerhets_sara"}
    /\ RequiredSet("bug") = {"sakerhets_sara"}
    /\ \A t \in {"epic", "story", "subtask"} : RequiredSet(t) = {}

AllTaskPersonasReturned(r) ==
    \A p \in {"utvecklar_uffe", "test_tina", "dok_daniel", "synthesizer"} :
        call[r][p] = "returned"

NoReviewerInvoked(r) ==
    \A i \in 1..Len(prompts[r]) : prompts[r][i].action # "review"

\* C3 as stated: the table is Task -> {Architect, Security}, Bug -> {Security},
\* others empty, and a process_task run on a type without required reviewers
\* whose persona calls all succeed invokes no reviewer, passes the gate and
\* ends MERGED.
C3_Original ==
    /\ RequiredTableAsSpecified
    /\ \A r \in TaskRuns :
          (/\ item[r].type \in {"epic", "story", "subtask"}
           /\ Over(r)
           /\ AllTaskPersonasReturned(r))
          => /\ NoReviewerInvoked(r)
             /\ gate[r] = "passed"
             /\ item[r].status = "merged"

\* C3 amended: the same, for runs in which no collaborator call raises.
C3_EmptyRequiredSetMerges ==
    /\ RequiredTableAsSpecified
    /\ \A r \in TaskRuns :
          (/\ item[r].type \in {"epic", "story", "subtask"}
           /\ Over(r)
           /\ AllTaskPersonasReturned(r)
           /\ NoCollaboratorFailure(r))
          => /\ NoReviewerInvoked(r)
             /\ gate[r] = "passed"
             /\ item[r].status = "merged"

C3_Witness ==
    \E r \in TaskRuns :
        /\ item[r].type = "story"
        /\ github
        /\ pc[r] = "returned"
        /\ item[r].status = "merged"
        /\ NoReviewerInvoked(r)

NamesReviewer(entry, p) == Len(entry) > 1 /\ entry[1] = p

ReviewOutcomeIsolated(r, a, b) ==
    /\ DictHas(review_state[r].responses, b)
    /\ DictGet(review_state[r].responses, b) = ResponseOf(r, b)
    /\ \E i \in 1..Len(review_state[r].errors) :
          NamesReviewer(review_state[r].errors[i], a)
    /\ ~DictHas(review_state[r].responses, a)
    /\ Invoked(r, "synthesizer")

PastFanIn(r, a, b) ==
    /\ a # b
    /\ call[r][a] = "raised"
    /\ call[r][b] = "returned"
    /\ pc[r] # "review_gather"

\* C4 as stated: when reviewer A raises and reviewer B succeeds, the review
\* state holds B's response, an error naming A, no response of A, and the
\* Synthesizer call is made.
C4_Original ==
    \A r \in ReviewingRuns :
        \A a, b \in RequiredSet(item[r].type) :
            PastFanIn(r, a, b) => ReviewOutcomeIsolated(r, a, b)

\* C4 amended: the same, provided posting B's review to the collaborator
\* (add_review_to_pr) does not raise.
C4_ReviewerFailureIsolated ==
    \A r \in ReviewingRuns :
        \A a, b \in RequiredSet(item[r].type) :
            (PastFanIn(r, a, b)
             /\ \A i \in GhCalls(r, "add_review_to_pr") : gh_log[i].ok)
            => ReviewOutcomeIsolated(r, a, b)

C4_Witness ==
    \E r \in ReviewingRuns :
        /\ call[r]["arkitekt_alf"] = "raised"
        /\ call[r]["sakerhets_sara"] = "returned"
        /\ pc[r] = "returned"
        /\ GhCalls(r, "add_review_to_pr") # {}

MergeStepTaken(r) ==
    \/ gate[r] # "unset"
    \/ GhCalls(r, "merge_pull_request") # {}
    \/ item[r].status = "merged"

\* C5: phases run in sequence: in process_epic Strategist and Architect start
\* only after the Product Owner returned and the Synthesizer only after both
\* returned; in process_task no reviewer starts before the Writer returned
\* and the merge step comes only after the review sub-workflow, Synthesizer
\* included, has returned.
C5_PhasesInSequence ==
    /\ \A r \in EpicRuns :
          /\ (Invoked(r, "strategiska_stina") \/ Invoked(r, "arkitekt_alf"))
                => call[r]["produkt_paula"] = "returned"
          /\ Invoked(r, "synthesizer") =>
                /\ call[r]["strategiska_stina"] = "returned"
                /\ call[r]["arkitekt_alf"] = "returned"
    /\ \A r \in TaskRuns :
          /\ ~NoReviewerInvoked(r) => call[r]["dok_daniel"] = "returned"
          /\ Invoked(r, "dok_daniel") => call[r]["test_tina"] = "returned"
          /\ Invoked(r, "test_tina") => call[r]["utvecklar_uffe"] = "returned"
          /\ MergeStepTaken(r) =>
                /\ call[r]["synthesizer"] = "returned"
                /\ DictHas(review_state[r].responses, "synthesizer")
                /\ \A p \in RequiredSet(item[r].type) : Ended(r, p)

C5_Witness ==
    \E r \in EpicRuns :
        /\ Invoked(r, "synthesizer")
        /\ completion[r][2] = "arkitekt_alf"
        /\ completion[r][3] = "strategiska_stina"

LeftDesignPhase(r) ==
    /\ kind[r] = "epic"
    /\ Invoked(r, "strategiska_stina")
    /\ pc[r] # "epic_design"

LeftReviewFanOut(r) ==
    /\ kind[r] \in {"task", "review"}
    /\ ~NoReviewerInvoked(r)
    /\ pc[r] # "review_gather"

\* C6: once the concurrent calls of a phase are launched the workflow leaves
\* the phase, by continuing or by raising, only when every launched call has
\* completed.
C6_WaitsForAllLaunched ==
    \A r \in Runs :
        /\ LeftDesignPhase(r) =>
              Ended(r, "strategiska_stina") /\ Ended(r, "arkitekt_alf")
        /\ LeftReviewFanOut(r) =>
              \A p \in RequiredSet(item[r].type) : Ended(r, p)

Section(r, p) == [title |-> TitleOf(p), reasoning |-> result[r][p].code]

PromptsOf(r, p) ==
    {prompts[r][i] : i \in {j \in 1..Len(prompts[r]) : prompts[r][j].persona = p}}

\* C7: the Strategist's and the Architect's prompts are built from the epic
\* and the Product Owner's output only, and whatever the completion order of
\* the two calls the Synthesizer's input holds one section per persona among
\* Product Owner, Strategist and Architect with that persona's reasoning.
C7_DesignCallsIndependent ==
    \A r \in EpicRuns :
        /\ \A inv \in PromptsOf(r, "strategiska_stina") :
              inv.instructions =
                 <<"Assess strategic fit", result[r]["produkt_paula"].code>>
        /\ \A inv \in PromptsOf(r, "arkitekt_alf") :
              inv.instructions =
                 <<"Design architecture", result[r]["produkt_paula"].code>>
        /\ \A inv \in PromptsOf(r, "synthesizer") :
              /\ Len(inv.instructions[2]) = 3
              /\ {inv.instructions[2][i] : i \in 1..3} =
                    {Section(r, p) : p \in {"produkt_paula",
                                            "strategiska_stina",
                                            "arkitekt_alf"}}

C7_Witness ==
    \E r \in EpicRuns :
        /\ Invoked(r, "synthesizer")
        /\ completion[r][2] = "arkitekt_alf"
        /\ result[r]["arkitekt_alf"] # result[r]["strategiska_stina"]
        /\ result[r]["arkitekt_alf"] # result[r]["produkt_paula"]

EpicPersonas ==
    {"produkt_paula", "strategiska_stina", "arkitekt_alf", "synthesizer"}

\* C8: a process_epic run whose four persona calls succeed returns a state
\* with exactly the four responses of Product Owner, Strategist, Architect
\* and Synthesizer, no errors and completed_at set, and that state is
\* active_workflows[epic.id].
C8_EpicSuccessState ==
    \A r \in EpicRuns :
        (Over(r) /\ \A p \in EpicPersonas : call[r][p] = "returned") =>
            /\ pc[r] = "returned"
            /\ Len(state[r].responses) = 4
            /\ DictKeys(state[r].responses) = EpicPersonas
            /\ \A p \in EpicPersonas :
                  DictGet(state[r].responses, p) = ResponseOf(r, p)
            /\ state[r].errors = <<>>
            /\ state[r].completed_at # NoTime
            /\ active_workflows[item[r].id] = r
            /\ state[r].work_item = item[r].id

C8_Witness ==
    \E r \in EpicRuns :
        /\ pc[r] = "returned"
        /\ github
        /\ Len(state[r].responses) = 4

AllPersonasOfTaskReturned(r) ==
    \A p \in {"utvecklar_uffe", "test_tina", "dok_daniel", "arkitekt_alf",
              "sakerhets_sara", "synthesizer"} : call[r][p] = "returned"

\* C9: a process_task run on a work item of type Task without collaborator,
\* all persona calls succeeding, ends in phase REVIEW with the work item
\* IN_REVIEW, the gate false and no pending actions.
C9_TaskWithoutCollaboratorStaysInReview ==
    \A r \in TaskRuns :
        (/\ item[r].type = "task"
         /\ ~github
         /\ Over(r)
         /\ AllPersonasOfTaskReturned(r))
        => /\ pc[r] = "returned"
           /\ state[r].phase = "review"
           /\ item[r].status = "in_review"
           /\ gate[r] = "failed"
           /\ state[r].pending_actions = <<>>

C9_Witness ==
    \E r \in TaskRuns :
        /\ item[r].type = "task"
        /\ ~github
        /\ pc[r] = "returned"
        /\ AllPersonasOfTaskReturned(r)

RequestsChanges(response) == response.review_decision = "request_changes"

FollowUpsOfChangeRequests(responses) ==
    LET asking == SelectSeq(DictValues(responses), RequestsChanges)
    IN Concat([i \in 1..Len(asking) |-> asking[i].follow_up_actions])

\* C10: when a process_task run does not pass the gate, pending_actions holds
\* exactly the follow-up actions of the responses that carry REQUEST_CHANGES,
\* the work item stays IN_REVIEW and no persona is invoked a second time.
C10_FailedGateCollectsFollowUps ==
    \A r \in TaskRuns :
        gate[r] = "failed" =>
            /\ pc[r] = "returned"
            /\ state[r].pending_actions =
                  FollowUpsOfChangeRequests(state[r].responses)
            /\ item[r].status = "in_review"
            /\ item[r].completed_at = NoTime
            /\ \A p \in PersonaType :
                  TimesInvoked(r, p) <= 1 /\ call[r][p] # "running"
            /\ GhCalls(r, "merge_pull_request") = {}

C10_Witness ==
    \E r \in TaskRuns :
        /\ gate[r] = "failed"
        /\ github
        /\ call[r]["arkitekt_alf"] = "raised"
        /\ call[r]["sakerhets_sara"] = "returned"

TransitionCalled == called'.op = "transition_to"

\* C16: once completed_at (or started_at) of a WorkItem is set, no later
\* transition_to changes it.
C16_TimestampsNeverOverwritten ==
    [][TransitionCalled =>
          /\ wi.completed_at # NoTime => wi'.completed_at = wi.completed_at
          /\ wi.started_at # NoTime => wi'.started_at = wi.started_at]_vars

\* C17: the first transition_to(IN_PROGRESS) sets started_at; every later
\* one, whatever statuses came in between, leaves it unchanged, and no other
\* transition touches it.
C17_StartedAtSetOnFirstInProgress ==
    [][TransitionCalled =>
          wi'.started_at =
             IF called'.status = "in_progress" /\ wi.started_at = NoTime
             THEN called'.at
             ELSE wi.started_at]_vars

C17_Witness ==
    /\ called.op = "transition_to" /\ called.status = "in_progress"
    /\ wi.started_at # NoTime
    /\ wi.started_at < called.at
    /\ wi.completed_at # NoTime

\* C18: transition_to sets completed_at for the targets MERGED and DEPLOYED
\* and leaves it as it was for every other target; it always sets status to
\* the target and refreshes updated_at.
C18_TransitionFrame ==
    [][TransitionCalled =>
          /\ wi'.completed_at =
                IF called'.status \in {"merged", "deployed"}
                THEN called'.at
                ELSE wi.completed_at
          /\ wi'.status = called'.status
          /\ wi'.updated_at = called'.at
          /\ wi'.acceptance_criteria = wi.acceptance_criteria]_vars

C18_Witness ==
    /\ called.op = "transition_to" /\ called.status = "backlog"
    /\ wi.status = "backlog"
    /\ wi.completed_at # NoTime
    /\ wi.updated_at = called.at

\* C19: after any sequence of add_acceptance_criterion and
\* mark_criterion_met calls, all_criteria_met() is true exactly when the
\* criteria list is empty or every criterion is met.
C19_AllCriteriaMetIffEmptyOrAllMet ==
    called.op = "all_criteria_met" =>
        (called.ret <=>
            \/ wi.acceptance_criteria = <<>>
            \/ {i \in 1..Len(wi.acceptance_criteria) :
                   ~wi.acceptance_criteria[i].is_met} = {})

C19_Witness ==
    /\ called.op = "all_criteria_met"
    /\ ~called.ret
    /\ Len(wi.acceptance_criteria) = 2
    /\ wi.acceptance_criteria[2].is_met

Stamped(c, by, t) ==
    [c EXCEPT !.is_met = TRUE, !.verified_by = by, !.verified_at = t]

\* C20: mark_criterion_met with an unknown id changes no criterion; with a
\* matching id it sets met flag, verifier and time of that criterion only,
\* also when the criterion was already met.
C20_MarkCriterionMetFrame ==
    [][called'.op = "mark_criterion_met" =>
          /\ Len(wi'.acceptance_criteria) = Len(wi.acceptance_criteria)
          /\ \A i \in 1..Len(wi.acceptance_criteria) :
                wi'.acceptance_criteria[i] =
                   IF wi.acceptance_criteria[i].id = called'.criterion_id
                   THEN Stamped(wi.acceptance_criteria[i], called'.by,
                                called'.at)
                   ELSE wi.acceptance_criteria[i]
          /\ wi'.status = wi.status
          /\ wi'.updated_at = wi.updated_at]_vars

C20_Witness ==
    /\ called.op = "mark_criterion_met"
    /\ called.criterion_id = 1
    /\ Len(wi.acceptance_criteria) = 2
    /\ wi.acceptance_criteria[1].verified_at = called.at
    /\ wi.acceptance_criteria[1].verified_by = "sakerhets_sara"
    /\ ~wi.acceptance_criteria[2].is_met

IsPrefix(s, t) == Len(s) <= Len(t) /\ \A i \in 1..Len(s) : s[i] = t[i]

RaisedBySomeStep(calls, results, log, r, e) ==
    \/ \E p \in PersonaType : calls[r][p] = "raised" /\ results[r][p] = e
    \/ /\ e = GithubError
       /\ \E i \in 1..Len(log) : log[i].run = r /\ ~log[i].ok

NothingRetried(ps, log, r) ==
    /\ \A p \in PersonaType :
          Cardinality({i \in 1..Len(ps[r]) : ps[r][i].persona = p}) <= 1
    /\ \A i, j \in 1..Len(log) :
          (log[i].run = r /\ log[j].run = r /\ i # j)
          => <<log[i].op, log[i].arg>> # <<log[j].op, log[j].arg>>

\* C11: when a step of process_epic or process_task raises, the text of the
\* exception is in state.errors exactly once and is the only entry, the same
\* exception reaches the caller, what was recorded before is still in the
\* state, the state is still the registry entry of the work item,
\* completed_at stays unset and no step is retried.
C11_FailureRecordedAndReraised ==
    [][\A r \in Runs :
          (kind[r] \in {"epic", "task"} /\ pc'[r] = "raised") =>
             /\ exc'[r] # NoError
             /\ RaisedBySomeStep(call', result', gh_log', r, exc'[r])
             /\ state'[r].errors = <<Str(exc'[r])>>
             /\ IsPrefix(state[r].responses, state'[r].responses)
             /\ IsPrefix(state[r].artifacts, state'[r].artifacts)
             /\ state'[r].completed_at = NoTime
             /\ active_workflows'[item'[r].id] = r
             /\ state'[r].work_item = item'[r].id
             /\ NothingRetried(prompts', gh_log', r)
             /\ pc[r] = "raised" => (state'[r] = state[r] /\ exc'[r] = exc[r])
      ]_vars

C11_Witness ==
    \E r \in TaskRuns :
        /\ pc[r] = "raised"
        /\ Len(state[r].responses) = 4
        /\ state[r].phase = "merge"
        /\ state[r].errors = <<Str(GithubError)>>

PromptOf(r, p) == CHOOSE inv \in PromptsOf(r, p) : TRUE

\* C12: in process_task the Developer's call is the first persona call, it
\* starts with the work item already IN_PROGRESS, and when a collaborator is
\* configured the feature-branch request has been made (and has succeeded)
\* before it, so the call sees the feature branch.
C12_BranchAndInProgressBeforeDeveloper ==
    \A r \in TaskRuns :
        /\ prompts[r] # <<>> => prompts[r][1].persona = "utvecklar_uffe"
        /\ Invoked(r, "utvecklar_uffe") =>
              /\ PromptOf(r, "utvecklar_uffe").status = "in_progress"
              /\ item[r].started_at # NoTime
              /\ item[r].status # "backlog"
              /\ github =>
                    /\ \E i \in GhCalls(r, "create_feature_branch") :
                          gh_log[i].ok
                    /\ PromptOf(r, "utvecklar_uffe").branch = BranchOf(item[r])
                    /\ item[r].github_branch = BranchOf(item[r])
        /\ (github /\ \A i \in GhCalls(r, "create_feature_branch") :
                          ~gh_log[i].ok) =>
              prompts[r] = <<>>

C12_Witness ==
    \E r \in TaskRuns :
        /\ github
        /\ call[r]["utvecklar_uffe"] = "running"
        /\ GhCalls(r, "create_feature_branch") # {}
        /\ item[r].status = "in_progress"

Recorded(r, p) == DictHas(state[r].responses, p)

ImplementationOrder == <<"utvecklar_uffe", "test_tina", "dok_daniel">>

\* C13: in process_task the Developer, the Tester and the Writer are invoked
\* once each, in that order, each after the previous one has returned; the
\* Tester's prompt summarises the Developer's artifacts, the Writer's prompt
\* the artifacts collected so far, and after the three calls state.artifacts
\* is the Developer's artifacts, then the Tester's, then the Writer's.
C13_ImplementationCallsInSequence ==
    \A r \in TaskRuns :
        /\ \A i \in 1..Len(prompts[r]) :
              i <= 3 => prompts[r][i].persona = ImplementationOrder[i]
        /\ \A p \in {"utvecklar_uffe", "test_tina", "dok_daniel"} :
              TimesInvoked(r, p) <= 1
        /\ Invoked(r, "test_tina") =>
              /\ call[r]["utvecklar_uffe"] = "returned"
              /\ Recorded(r, "utvecklar_uffe")
              /\ PromptOf(r, "test_tina").instructions =
                    <<"Write tests for this implementation",
                      SummarizeArtifacts(
                         ResponseOf(r, "utvecklar_uffe").artifacts)>>
        /\ Invoked(r, "dok_daniel") =>
              /\ call[r]["test_tina"] = "returned"
              /\ Recorded(r, "test_tina")
              /\ PromptOf(r, "dok_daniel").instructions =
                    <<"Update documentation for",
                      SummarizeArtifacts(
                         ResponseOf(r, "utvecklar_uffe").artifacts
                         \o ResponseOf(r, "test_tina").artifacts)>>
        /\ Recorded(r, "dok_daniel") =>
              state[r].artifacts =
                 ResponseOf(r, "utvecklar_uffe").artifacts
                 \o ResponseOf(r, "test_tina").artifacts
                 \o ResponseOf(r, "dok_daniel").artifacts

C13_Witness ==
    \E r \in TaskRuns :
        /\ Recorded(r, "dok_daniel")
        /\ Len(prompts[r]) >= 3
        /\ result[r]["utvecklar_uffe"] # result[r]["test_tina"]

SomeTargetPath(r) ==
    \E i \in 1..Len(state[r].artifacts) : HasTargetPath(state[r].artifacts[i])

Publishable(r) ==
    github /\ item[r].github_branch # None /\ SomeTargetPath(r)

\* C14: in process_task the artifacts are committed, by a single call to
\* commit_multiple_artifacts, and a pull request is opened exactly when a
\* collaborator is configured, a branch is known and some collected artifact
\* has a target path; without such an artifact neither call is made.
C14_PublishOnlyWithTargetPaths ==
    \A r \in TaskRuns :
        /\ Cardinality(GhCalls(r, "commit_multiple_artifacts")) <= 1
        /\ Cardinality(GhCalls(r, "create_pull_request")) <= 1
        /\ GhCalls(r, "commit_multiple_artifacts") # {} => Publishable(r)
        /\ GhCalls(r, "create_pull_request") # {} => Publishable(r)
        /\ (Recorded(r, "dok_daniel") /\ Publishable(r)) =>
              GhCalls(r, "commit_multiple_artifacts") # {}

OwnCalls(log, r) == SelectSeq(log, LAMBDA e : e.run = r)

\* everything a run holds: its work item, its WorkflowState objects, the
\* position and the calls of its coroutine, its collaborator calls
View(r) ==
    <<kind[r], item[r], state[r], review_state[r], pc[r], call[r],
      result[r], prompts[r], completion[r], exc[r], gate[r],
      OwnCalls(gh_log, r)>>

\* what a run is given: the workflow and the item's type, the outcome of
\* every persona call, their completion order, the collaborator's outcomes
Inputs(r) ==
    <<kind[r], item[r].type, call[r], result[r], completion[r],
      [i \in 1..Len(OwnCalls(gh_log, r)) |->
          <<OwnCalls(gh_log, r)[i].op, OwnCalls(gh_log, r)[i].ok>>]>>

Contents(s) ==
    <<s.responses, s.artifacts, s.pending_actions, s.errors, s.phase>>

Outcome(r) ==
    <<Contents(state[r]), Contents(review_state[r]), item[r].status>>

Finished(r) == pc[r] \in {"returned", "raised"}

Registered(r) == pc[r] # "start" /\ kind[r] \in {"epic", "task"}

OneEntryPerItem ==
    /\ \A r \in Runs : Registered(r) => active_workflows[item[r].id] = r
    /\ \A i \in ItemIds :
          active_workflows[i] # 0 =>
             /\ active_workflows[i] \in Runs
             /\ item[active_workflows[i]].id = i
             /\ Registered(active_workflows[i])

SameInputsSameOutcome ==
    \A r1, r2 \in Runs :
        (Finished(r1) /\ Finished(r2) /\ Inputs(r1) = Inputs(r2)) =>
           Outcome(r1) = Outcome(r2)

\* C15: with two workflow runs interleaved at the persona calls, over work
\* items with different ids, every step belongs to one run and leaves
\* everything the other run holds as it was; two runs given the same
\* persona and collaborator outcomes end with the same state contents and
\* work-item status whatever the interleaving; and the registry holds, for
\* each work item id, the state of the run on that item.
C15_ConcurrentRunsIndependent ==
    [][/\ \E r \in Runs : \A o \in Runs \ {r} : View(o)' = View(o)
       /\ SameInputsSameOutcome'
       /\ OneEntryPerItem'
      ]_vars

Interleaved ==
    \E i, j \in 1..Len(gh_log) :
        i < j /\ j < Len(gh_log) /\ gh_log[i].run = 1 /\ gh_log[j].run = 2
        /\ gh_log[Len(gh_log)].run = 1

C15_Witness ==
    /\ kind = [r \in Runs |-> "task"]
    /\ \A r \in Runs : Finished(r) /\ item[r].status = "merged"
    /\ Inputs(1) = Inputs(2)
    /\ Interleaved
    /\ active_workflows = [i \in ItemIds |-> IF i = "id1" THEN 1 ELSE 2]

\* C24: when process_epic returns successfully the phase of the returned
\* state has advanced past DESIGN.
C24_EpicReturnsPastDesign ==
    \A r \in EpicRuns :
        pc[r] = "returned" => state[r].phase \notin {"planning", "design"}

HasEntry(errors, e) == \E i \in 1..Len(errors) : errors[i] = e

\* C26: when a required reviewer's call fails in the review run inside
\* process_task, the state returned by process_task holds an error entry
\* identifying that reviewer.
C26_ReviewerFailureInTaskState ==
    \A r \in TaskRuns :
        \A p \in RequiredSet(item[r].type) :
            (pc[r] = "returned" /\ call[r][p] = "raised") =>
               HasEntry(state[r].errors, ReviewErrorEntry(p, result[r][p]))

MergeFailed(r) ==
    \E i \in GhCalls(r, "merge_pull_request") : ~gh_log[i].ok

\* C28: in process_task, if the gate passes and merge_pull_request raises,
\* the work item is not marked MERGED: its status stays IN_REVIEW, the phase
\* is MERGE, the error is the one entry of state.errors, completed_at stays
\* unset and the exception reaches the caller.
C28_MergeFailureLeavesInReview ==
    \A r \in TaskRuns :
        MergeFailed(r) =>
           /\ gate[r] = "passed"
           /\ pc[r] = "raised"
           /\ exc[r] = GithubError
           /\ item[r].status = "in_review"
           /\ item[r].completed_at = NoTime
           /\ state[r].phase = "merge"
           /\ state[r].errors = <<Str(GithubError)>>
           /\ state[r].completed_at = NoTime

C28_Witness ==
    \E r \in TaskRuns :
        /\ MergeFailed(r)
        /\ DictHas(state[r].responses, "synthesizer")
        /\ item[r].github_pr_number = PrNumber

DesignPersonas == {"strategiska_stina", "arkitekt_alf"}

\* C29: in process_epic, if the Strategist's or the Architect's call fails,
\* neither Design response is stored, also when the other call succeeded:
\* responses holds the Product Owner's entry only, the Synthesizer is never
\* invoked, and once the failure is handled exactly one error is recorded
\* and that exception is re-raised.
C29_DesignFailureStoresNothing ==
    \A r \in EpicRuns :
        (\E p \in DesignPersonas : call[r][p] = "raised") =>
           /\ DictKeys(state[r].responses) = {"produkt_paula"}
           /\ ~Invoked(r, "synthesizer")
           /\ state[r].phase = "design"
           /\ pc[r] \in {"epic_design", "raised"}
           /\ pc[r] = "raised" =>
                 /\ Len(state[r].errors) = 1
                 /\ \E p \in DesignPersonas :
                       /\ call[r][p] = "raised"
                       /\ exc[r] = result[r][p]
                       /\ state[r].errors = <<Str(result[r][p])>>
                 /\ state[r].completed_at = NoTime

C29_Witness ==
    \E r \in EpicRuns :
        /\ pc[r] = "raised"
        /\ call[r]["strategiska_stina"] = "returned"
        /\ call[r]["arkitekt_alf"] = "raised"

ImplementationPersonas == {"utvecklar_uffe", "test_tina", "dok_daniel"}

\* C30: if the Synthesizer call of the process_review run inside
\* process_task raises, no reviewer response is merged into the task's
\* state.responses, the gate is not evaluated, the work item stays
\* IN_REVIEW, and the exception is recorded once in the task state's errors
\* and re-raised.
C30_ReviewSynthesisFailureNotIsolated ==
    \A r \in TaskRuns :
        (Over(r) /\ call[r]["synthesizer"] = "raised") =>
           /\ pc[r] = "raised"
           /\ exc[r] = result[r]["synthesizer"]
           /\ DictKeys(state[r].responses) = ImplementationPersonas
           /\ gate[r] = "unset"
           /\ GhCalls(r, "merge_pull_request") = {}
           /\ item[r].status = "in_review"
           /\ state[r].phase = "review"
           /\ state[r].errors = <<Str(result[r]["synthesizer"])>>
           /\ state[r].completed_at = NoTime

C30_Witness ==
    \E r \in TaskRuns :
        /\ pc[r] = "raised"
        /\ call[r]["synthesizer"] = "raised"
        /\ \E p \in RequiredSet(item[r].type) :
              DictHas(review_state[r].responses, p)

EntriesAsCalled(a) ==
    /\ Len(a.endpoints) = Len(a.calls)
    /\ \A i \in 1..Len(a.calls) :
          /\ a.endpoints[i].path = a.calls[i][1]
          /\ a.endpoints[i].method = a.calls[i][2]
          /\ a.endpoints[i].parameters = a.calls[i][3]
          /\ a.endpoints[i].response = a.calls[i][4]
    /\ a.asked => a.returned = a.endpoints

\* C25: after n add_endpoint calls endpoints has n entries, the i-th holds
\* the arguments of the i-th call, get_documentation returns these entries in
\* this order, and no call changes an earlier entry.
C25_EndpointsInCallOrder ==
    [][/\ EntriesAsCalled(api')
       /\ IsPrefix(api.endpoints, api'.endpoints)
       /\ IsPrefix(api.calls, api'.calls)
      ]_vars

C25_Witness ==
    /\ Len(api.calls) = 2
    /\ api.asked
    /\ api.endpoints[1].path = api.endpoints[2].path
    /\ api.endpoints[1].method # api.endpoints[2].method
    /\ Len(api.returned) = 2

\* C22: a work item written with create_issue_from_work_item or
\* update_issue_from_work_item and read back with
\* parse_work_item_from_issue comes back with the same id, type, parent id,
\* priority and status.
C22_MetadataRoundTrips ==
    \A i \in 1..Len(parsed) :
        /\ parsed[i].id = wi.id
        /\ parsed[i].type = wi.type
        /\ parsed[i].parent_id = wi.parent_id
        /\ parsed[i].priority = wi.priority
        /\ parsed[i].status = wi.status

RoundTripExceptStatus ==
    \A i \in 1..Len(parsed) :
        /\ parsed[i].id = wi.id
        /\ parsed[i].type = wi.type
        /\ parsed[i].parent_id = wi.parent_id
        /\ parsed[i].priority = wi.priority
        /\ parsed[i].status = "backlog"
        /\ parsed[i].github_issue_number = wi.github_issue_number

EventRuns == {r \in Runs : kind[r] = "event"}

WorkflowStarted(r) ==
    \/ state[r] # Unstarted
    \/ review_state[r] # Unstarted
    \/ prompts[r] # <<>>
    \/ \E i \in ItemIds : active_workflows[i] = r

OrchestratorUntouched ==
    /\ active_workflows = [i \in ItemIds |-> 0]
    /\ \A r \in Runs :
          /\ state[r] = Unstarted /\ review_state[r] = Unstarted
          /\ prompts[r] = <<>>
          /\ call[r] = [p \in PersonaType |-> "idle"]
    /\ gh_log = <<>>

IssueOpened(e) == e.event_type = "issues" /\ e.action = "opened"

EpicIssueOpened(r) ==
    /\ IssueOpened(event[r])
    /\ github
    /\ parsed # <<>>
    /\ parsed[1].type = "epic"

\* C21: handle_github_event starts a workflow only for an issues/opened
\* event whose issue parses to an Epic while a collaborator is configured,
\* and then runs process_epic once, on the parsed work item; for every other
\* pair, mapped or not, it returns without starting a workflow, changing the
\* orchestrator or raising.
C21_OnlyOpenedEpicStartsWorkflow ==
    \A r \in EventRuns :
        /\ WorkflowStarted(r) =>
              /\ EpicIssueOpened(r)
              /\ item[r] = parsed[1]
              /\ state[r].work_item = item[r].id
              /\ active_workflows[item[r].id] = r
              /\ TimesInvoked(r, "produkt_paula") = 1
              /\ \A i \in 1..Len(prompts[r]) :
                    prompts[r][i].persona \in EpicPersonas
              /\ review_state[r] = Unstarted
        /\ (EpicIssueOpened(r) /\ pc[r] # "start") => WorkflowStarted(r)
        /\ (event[r] # NoEvent /\ ~IssueOpened(event[r])) =>
              /\ pc[r] = "returned"
              /\ exc[r] = NoError
              /\ OrchestratorUntouched
              /\ item[r] = NewWorkItem(ItemIdOf(r), "task", NoNumber, 0)

C21_Witness ==
    \E r \in EventRuns :
        /\ pc[r] = "returned"
        /\ EpicIssueOpened(r)
        /\ Len(state[r].responses) = 4


\* the command just handled was read after a workflow of the session began
AfterWorkflow == repl.ran # {} /\ repl.pc = "prompt"

\* C23: in interactive mode an exception raised while a command is handled
\* (a failing epic or task workflow, a failing write of the results, a
\* failing input()) is caught, reported as an error message, and the loop
\* is back at its prompt; the loop ends only on quit/exit/q or on a
\* keyboard interrupt.
C23_ExceptionsKeepReplRunning ==
    [][/\ (repl.pc = "awaiting" /\ repl' # repl
              /\ pc[repl.awaiting] = "raised")
          => (repl'.pc = "prompt" /\ repl'.output = <<"error">>)
       /\ (repl.pc = "awaiting" /\ repl' # repl) => repl'.pc = "prompt"
       /\ (repl' # repl /\ repl'.input.raised = "EOFError")
          => (repl'.pc = "prompt" /\ repl'.output = <<"error">>)
       /\ (repl.pc # "exited" /\ repl'.pc = "exited")
          => (\/ IsQuit(repl'.input.line)
              \/ repl'.input.raised = "KeyboardInterrupt")]_vars

\* a workflow of the session raised, and a later command was read
C23_Witness ==
    /\ AfterWorkflow
    /\ \E r \in repl.ran : pc[r] = "raised" /\ state[r].errors # <<>>
    /\ repl.input.line = <<"help">>
    /\ repl.output = <<"help">>

\* C27: after an epic or task command has been run in the session, a
\* following status command lists that workflow instead of reporting that
\* there are no active workflows.
C27_StatusListsWorkflow ==
    (AfterWorkflow /\ repl.input.line = <<"status">>)
        => repl.output[1] = "active_workflows"

\* the registry that status reads is never written by a workflow
StatusSeesNoWorkflow ==
    (repl.input.line = <<"status">> /\ repl.pc = "prompt")
        => repl.output = <<"no_active_workflows">>
====
